---- MODULE Spec2Model ----
(***************************************************************************)
(* A model of the edx-analytics-exporter task engine: task selection       *)
(* (_get_selected_tasks), the task runner (run_tasks / _run_task), and the *)
(* per-organization pipeline of exporter/main.py (export, encrypt,         *)
(* archive, upload).                                                       *)
(***************************************************************************)
EXTENDS Integers, Sequences, FiniteSets, TLC

VARIABLES
    \* ---- inputs and result of one _get_selected_tasks call (SpecSelect)
    sel_pc, sel_task_cls, sel_tasks_from_options, sel_excluded_tasks, sel_result,
    \* ---- the interpreter's string hash (decides dict iteration order)
    hash_seed,
    \* ---- one run of main(): configuration, control position and locals
    general_config,     \* what setup() returns
    pc,                 \* where main() is
    organization_idx,   \* position of main's loop over the organizations
    environment_idx,    \* position of export_organization_data's loop
    course_idx,         \* 0: organization tasks; i > 0: tasks of courses[i]
    task_idx,           \* position of run_tasks' loop
    courses,            \* get_org_courses(**kwargs) of the current environment
    task_list,          \* argument of the current run_tasks call
    rt_results,         \* local `results` of run_tasks
    original_kwargs,    \* the dict `original_kwargs` of run_tasks
    results,            \* local `results` of export_organization_data
    \* ---- the world outside the process
    files,              \* path -> content, the files in the working directories
    dirs,               \* the directories that exist
    memo,               \* cache of the memoized _find_all_courses
    listing_calls,      \* the get_all_courses calls of the run, in order
    archive,            \* the zip file of the current organization
    uploaded,           \* the names of the archives that reached the output bucket
    exception,          \* the exception that is propagating or ended the run
    \* ---- history of the run
    rt_log,             \* the task.run calls of the current run_tasks call
    export_log,         \* the _run_task calls of the current export_organization_data call
    commands,           \* the kinds of external commands that were executed so far
    steps,              \* the packaging steps called for the current organization
    gpg_failed,         \* the files gpg did not encrypt
    placeholders,       \* the files write_failed_file wrote for the current organization
    failures,           \* how many tasks and encryptions did not deliver so far
    \* ---- calls of task.get_filename in one working directory (SpecFilename)
    fn_pc,              \* how many calls were made
    fn_calls,           \* the calls: task class and keyword arguments of each
    fn_returned,        \* what each call returned or raised
    fn_dirs,            \* the directories that exist after each call
    \* ---- one call of get_org_courses (SpecCourses)
    gc_pc,              \* "idle", "call" or "returned"
    gc_kwargs,          \* its keyword arguments: courses, other_names
    gc_all_courses,     \* what get_all_courses returns to it
    gc_result,          \* the exception it raises and the list it returns
    \* ---- one operation that calls execute_shell (SpecShell)
    sh_op,              \* CopyS3FileTask.run, OrgEmailOptInTask.run or upload_data
    sh_pc,              \* where the operation is
    sh_world,           \* dry_run, and whether aws is on the PATH
    sh_kwargs,          \* the kwargs the operation has received, as they are now
    sh_calls,           \* the execute_shell calls: command, kwargs, tries, status
    sh_exc,             \* the exception the operation raised
    sh_wrote,           \* whether the output file was written
    \* ---- one task run inside `with collect_elapsed_time(task, **kwargs)` (SpecMetrics)
    mt_pc,              \* "idle", "enter", "run", "exit" or "done"
    mt_kwargs,          \* the kwargs of collect_elapsed_time and of run
    mt_run,             \* what the task's run does: the exception, the result
    mt_client,          \* the calls of get_graphite_client
    mt_sends,           \* the sends to the client: name and whether it raised
    mt_metrics,         \* the metrics the client has recorded
    mt_outcome,         \* what the with block ended with: the exception, the result
    \* ---- one run of single_org_export.main (SpecSingleOrg)
    so_pc,              \* where main() is
    so_program_options, \* what docopt returns for the command line
    so_config,          \* general_config, the result of setup
    so_courses,         \* the list get_courses returned
    so_course_idx,      \* index of the course of the loop of main() (0: before it)
    so_ran,             \* the tasks that were run: scope, course and class of each
    so_dirs,            \* the course directories that were made
    so_exception,       \* the exception that ended the run, or "None"
    \* ---- one run of course_export.main (SpecCourseExport)
    ce_pc,              \* where main() is
    ce_config,          \* general_config: the requested courses, the environments
    ce_environment_idx, \* index of the environment of the loop of get_courses_with_env
    ce_listings,        \* what get_all_courses returned for each environment so far
    ce_courses,         \* the local `courses` of get_courses_with_env
    ce_courses_with_env,\* the dict courses_with_env
    ce_course_idx,      \* index of the course of the loop of main() (0: before it)
    ce_dirs,            \* the course directories that were made
    ce_ran,             \* the tasks that were run: course, environment and class
    ce_results,         \* what export_course_data returned for each course
    ce_uploaded,        \* the courses whose files were uploaded
    ce_exception        \* the exception that ended the run, or "None"

sel_vars == <<sel_pc, sel_task_cls, sel_tasks_from_options, sel_excluded_tasks, sel_result>>

main_vars == <<general_config, pc, organization_idx, environment_idx, course_idx, task_idx,
               courses, task_list, rt_results, results, files, dirs, memo, archive,
               uploaded, exception, rt_log, steps, gpg_failed, placeholders, failures,
               original_kwargs, listing_calls, export_log, commands>>

fn_vars == <<fn_pc, fn_calls, fn_returned, fn_dirs>>

gc_vars == <<gc_pc, gc_kwargs, gc_all_courses, gc_result>>

sh_vars == <<sh_op, sh_pc, sh_world, sh_kwargs, sh_calls, sh_exc, sh_wrote>>

mt_vars == <<mt_pc, mt_kwargs, mt_run, mt_client, mt_sends, mt_metrics, mt_outcome>>

so_vars == <<so_pc, so_program_options, so_config, so_courses, so_course_idx, so_ran,
             so_dirs, so_exception>>

ce_vars == <<ce_pc, ce_config, ce_environment_idx, ce_listings, ce_courses,
             ce_courses_with_env, ce_course_idx, ce_dirs, ce_ran, ce_results, ce_uploaded,
             ce_exception>>

aux_vars == <<gc_vars, sh_vars, mt_vars, so_vars, ce_vars>>

vars == <<sel_vars, hash_seed, main_vars, fn_vars, aux_vars>>

(***************************************************************************)
(* Bounds of the model.                                                    *)
(***************************************************************************)
MaxHashSeed == 2
MaxIncluded == 2
MaxExcluded == 1
MaxConfigured == 2
MaxListed == 2
MaxTasks == 3
MaxFailures == 2

(***************************************************************************)
(* Strings that the code transforms are sequences of characters.           *)
(***************************************************************************)
UPPERCASE == <<"A","B","C","D","E","F","G","H","I","J","K","L","M",
               "N","O","P","Q","R","S","T","U","V","W","X","Y","Z">>
LOWERCASE == <<"a","b","c","d","e","f","g","h","i","j","k","l","m",
               "n","o","p","q","r","s","t","u","v","w","x","y","z">>

\* a list given by comprehension, with its elements evaluated once
List(f) == SubSeq(f, 1, Len(f))

Letters == {UPPERCASE[i] : i \in 1..Len(UPPERCASE)} \cup {LOWERCASE[i] : i \in 1..Len(LOWERCASE)}

IndexIn(seq, c) == CHOOSE i \in 1..Len(seq) : seq[i] = c
IsUpper(c) == \E i \in 1..Len(UPPERCASE) : UPPERCASE[i] = c
IsLower(c) == \E i \in 1..Len(LOWERCASE) : LOWERCASE[i] = c

\* str.lower() on one character: only A-Z change
LowerOfLetter == [c \in Letters |-> IF IsUpper(c) THEN LOWERCASE[IndexIn(UPPERCASE, c)] ELSE c]
LowerChar(c) == IF c \in Letters THEN LowerOfLetter[c] ELSE c

\* str.lower()
lower(s) == List([i \in 1..Len(s) |-> LowerChar(s[i])])

\* str.upper(), used only to build inputs
UpperOfLetter == [c \in Letters |-> IF IsLower(c) THEN UPPERCASE[IndexIn(LOWERCASE, c)] ELSE c]
UpperChar(c) == IF c \in Letters THEN UpperOfLetter[c] ELSE c
upper(s) == List([i \in 1..Len(s) |-> UpperChar(s[i])])

DIGITS == <<"0","1","2","3","4","5","6","7","8","9">>
Digits == {DIGITS[i] : i \in 1..Len(DIGITS)}
IsDigit(c) == c \in Digits

\* characters outside ASCII are written by their code point
E_ACUTE == "U+00E9"
U_UMLAUT == "U+00FC"
PAD == "U+0080"
NonAscii == {E_ACUTE, U_UMLAUT, PAD}

\* ord(c)
OrdOfChar ==
    [c \in Letters \cup Digits \cup NonAscii
            \cup {" ", "+", "-", ".", "/", ":", "@", "_", "~"} |->
        IF IsUpper(c) THEN 64 + IndexIn(UPPERCASE, c)
        ELSE IF IsLower(c) THEN 96 + IndexIn(LOWERCASE, c)
        ELSE IF IsDigit(c) THEN 47 + IndexIn(DIGITS, c)
        ELSE CASE c = " " -> 32 [] c = "+" -> 43 [] c = "-" -> 45 [] c = "." -> 46
               [] c = "/" -> 47 [] c = ":" -> 58 [] c = "@" -> 64 [] c = "_" -> 95
               [] c = "~" -> 126 [] c = PAD -> 128
               [] c = E_ACUTE -> 233 [] c = U_UMLAUT -> 252]
Ord(c) == OrdOfChar[c]

\* a < b for strings (the order sorted() uses)
RECURSIVE StrLess(_, _, _)
StrLess(a, b, i) ==
    IF i > Len(a) THEN i <= Len(b)
    ELSE IF i > Len(b) THEN FALSE
    ELSE IF a[i] = b[i] THEN StrLess(a, b, i + 1)
    ELSE Ord(a[i]) < Ord(b[i])

\* sep.join(parts)
RECURSIVE Join(_, _)
Join(sep, parts) ==
    IF parts = <<>> THEN <<>>
    ELSE IF Len(parts) = 1 THEN parts[1]
    ELSE parts[1] \o sep \o Join(sep, Tail(parts))

\* s.split(sep) for a one-character separator
RECURSIVE Split(_, _)
Split(s, sep) ==
    IF \A i \in 1..Len(s) : s[i] # sep THEN <<s>>
    ELSE LET k == CHOOSE i \in 1..Len(s) : s[i] = sep /\ \A j \in 1..(i - 1) : s[j] # sep
         IN  <<SubSeq(s, 1, k - 1)>> \o Split(SubSeq(s, k + 1, Len(s)), sep)

\* s.startswith(prefix)
StartsWith(s, prefix) == Len(s) >= Len(prefix) /\ SubSeq(s, 1, Len(prefix)) = prefix

(***************************************************************************)
(* The task catalog.  cls is the class, name__ its __name__; scope is the  *)
(* scope mixin it derives from, backend the Task subclass it derives from. *)
(***************************************************************************)
DEFAULT_TASKS == <<
    [cls |-> "UserIDMapTask", scope |-> "CourseTask", backend |-> "SQLTask", SUBDIR |-> "NotSet",
     name__ |-> <<"U","s","e","r","I","D","M","a","p","T","a","s","k">>,
     NAME |-> <<"u","s","e","r","_","i","d","_","m","a","p">>,
     EXT |-> <<"s","q","l">>],
    [cls |-> "StudentModuleTask", scope |-> "CourseTask", backend |-> "CopyS3FileTask", SUBDIR |-> "NotSet",
     name__ |-> <<"S","t","u","d","e","n","t","M","o","d","u","l","e","T","a","s","k">>,
     NAME |-> <<"c","o","u","r","s","e","w","a","r","e","_","s","t","u","d","e","n","t","m","o","d","u","l","e">>,
     EXT |-> <<"s","q","l">>],
    [cls |-> "TeamsTask", scope |-> "CourseTask", backend |-> "SQLTask", SUBDIR |-> "NotSet",
     name__ |-> <<"T","e","a","m","s","T","a","s","k">>,
     NAME |-> <<"t","e","a","m","s">>,
     EXT |-> <<"s","q","l">>],
    [cls |-> "TeamsMembershipTask", scope |-> "CourseTask", backend |-> "SQLTask", SUBDIR |-> "NotSet",
     name__ |-> <<"T","e","a","m","s","M","e","m","b","e","r","s","h","i","p","T","a","s","k">>,
     NAME |-> <<"t","e","a","m","s","_","m","e","m","b","e","r","s","h","i","p">>,
     EXT |-> <<"s","q","l">>],
    [cls |-> "CourseEnrollmentTask", scope |-> "CourseTask", backend |-> "SQLTask", SUBDIR |-> "NotSet",
     name__ |-> <<"C","o","u","r","s","e","E","n","r","o","l","l","m","e","n","t","T","a","s","k">>,
     NAME |-> <<"s","t","u","d","e","n","t","_","c","o","u","r","s","e","e","n","r","o","l","l","m","e","n","t">>,
     EXT |-> <<"s","q","l">>],
    [cls |-> "CourseGradesTask", scope |-> "CourseTask", backend |-> "SQLTask", SUBDIR |-> "NotSet",
     name__ |-> <<"C","o","u","r","s","e","G","r","a","d","e","s","T","a","s","k">>,
     NAME |-> <<"g","r","a","d","e","s","_","p","e","r","s","i","s","t","e","n","t","c","o","u","r","s","e","g","r","a","d","e">>,
     EXT |-> <<"s","q","l">>],
    [cls |-> "SubsectionGradesTask", scope |-> "CourseTask", backend |-> "SQLTask", SUBDIR |-> "NotSet",
     name__ |-> <<"S","u","b","s","e","c","t","i","o","n","G","r","a","d","e","s","T","a","s","k">>,
     NAME |-> <<"g","r","a","d","e","s","_","p","e","r","s","i","s","t","e","n","t","s","u","b","s","e","c","t","i","o","n","g","r","a","d","e">>,
     EXT |-> <<"s","q","l">>],
    [cls |-> "GeneratedCertificateTask", scope |-> "CourseTask", backend |-> "SQLTask", SUBDIR |-> "NotSet",
     name__ |-> <<"G","e","n","e","r","a","t","e","d","C","e","r","t","i","f","i","c","a","t","e","T","a","s","k">>,
     NAME |-> <<"c","e","r","t","i","f","i","c","a","t","e","s","_","g","e","n","e","r","a","t","e","d","c","e","r","t","i","f","i","c","a","t","e">>,
     EXT |-> <<"s","q","l">>],
    [cls |-> "AuthUserTask", scope |-> "CourseTask", backend |-> "SQLTask", SUBDIR |-> "NotSet",
     name__ |-> <<"A","u","t","h","U","s","e","r","T","a","s","k">>,
     NAME |-> <<"a","u","t","h","_","u","s","e","r">>,
     EXT |-> <<"s","q","l">>],
    [cls |-> "AuthUserProfileTask", scope |-> "CourseTask", backend |-> "SQLTask", SUBDIR |-> "NotSet",
     name__ |-> <<"A","u","t","h","U","s","e","r","P","r","o","f","i","l","e","T","a","s","k">>,
     NAME |-> <<"a","u","t","h","_","u","s","e","r","p","r","o","f","i","l","e">>,
     EXT |-> <<"s","q","l">>],
    [cls |-> "StudentLanguageProficiencyTask", scope |-> "CourseTask", backend |-> "SQLTask", SUBDIR |-> "NotSet",
     name__ |-> <<"S","t","u","d","e","n","t","L","a","n","g","u","a","g","e","P","r","o","f","i","c","i","e","n","c","y","T","a","s","k">>,
     NAME |-> <<"s","t","u","d","e","n","t","_","l","a","n","g","u","a","g","e","p","r","o","f","i","c","i","e","n","c","y">>,
     EXT |-> <<"s","q","l">>],
    [cls |-> "WikiArticleTask", scope |-> "CourseTask", backend |-> "SQLTask", SUBDIR |-> "NotSet",
     name__ |-> <<"W","i","k","i","A","r","t","i","c","l","e","T","a","s","k">>,
     NAME |-> <<"w","i","k","i","_","a","r","t","i","c","l","e">>,
     EXT |-> <<"s","q","l">>],
    [cls |-> "WikiArticleRevisionTask", scope |-> "CourseTask", backend |-> "SQLTask", SUBDIR |-> "NotSet",
     name__ |-> <<"W","i","k","i","A","r","t","i","c","l","e","R","e","v","i","s","i","o","n","T","a","s","k">>,
     NAME |-> <<"w","i","k","i","_","a","r","t","i","c","l","e","r","e","v","i","s","i","o","n">>,
     EXT |-> <<"s","q","l">>],
    [cls |-> "UserCourseTagTask", scope |-> "CourseTask", backend |-> "SQLTask", SUBDIR |-> "NotSet",
     name__ |-> <<"U","s","e","r","C","o","u","r","s","e","T","a","g","T","a","s","k">>,
     NAME |-> <<"u","s","e","r","_","a","p","i","_","u","s","e","r","c","o","u","r","s","e","t","a","g">>,
     EXT |-> <<"s","q","l">>],
    [cls |-> "ForumsTask", scope |-> "CourseTask", backend |-> "MongoTask", SUBDIR |-> "NotSet",
     name__ |-> <<"F","o","r","u","m","s","T","a","s","k">>,
     NAME |-> <<>>,
     EXT |-> <<"m","o","n","g","o">>],
    [cls |-> "CourseStructureTask", scope |-> "CourseTask", backend |-> "DjangoAdminTask", SUBDIR |-> "NotSet",
     name__ |-> <<"C","o","u","r","s","e","S","t","r","u","c","t","u","r","e","T","a","s","k">>,
     NAME |-> <<"c","o","u","r","s","e","_","s","t","r","u","c","t","u","r","e">>,
     EXT |-> <<"j","s","o","n">>],
    [cls |-> "CourseContentTask", scope |-> "CourseTask", backend |-> "DjangoAdminTask", SUBDIR |-> "NotSet",
     name__ |-> <<"C","o","u","r","s","e","C","o","n","t","e","n","t","T","a","s","k">>,
     NAME |-> <<"c","o","u","r","s","e">>,
     EXT |-> <<"x","m","l",".","t","a","r",".","g","z">>],
    [cls |-> "CourseRoleTask", scope |-> "CourseTask", backend |-> "SQLTask", SUBDIR |-> "NotSet",
     name__ |-> <<"C","o","u","r","s","e","R","o","l","e","T","a","s","k">>,
     NAME |-> <<"s","t","u","d","e","n","t","_","c","o","u","r","s","e","a","c","c","e","s","s","r","o","l","e">>,
     EXT |-> <<"s","q","l">>],
    [cls |-> "ForumRoleTask", scope |-> "CourseTask", backend |-> "SQLTask", SUBDIR |-> "NotSet",
     name__ |-> <<"F","o","r","u","m","R","o","l","e","T","a","s","k">>,
     NAME |-> <<"d","j","a","n","g","o","_","c","o","m","m","e","n","t","_","c","l","i","e","n","t","_","r","o","l","e","_","u","s","e","r","s">>,
     EXT |-> <<"s","q","l">>],
    [cls |-> "OrgEmailOptInTask", scope |-> "OrgTask", backend |-> "DjangoAdminTask", SUBDIR |-> "NotSet",
     name__ |-> <<"O","r","g","E","m","a","i","l","O","p","t","I","n","T","a","s","k">>,
     NAME |-> <<"e","m","a","i","l","_","o","p","t","_","i","n">>,
     EXT |-> <<"c","s","v">>],
    [cls |-> "AssessmentAssessmentTask", scope |-> "CourseTask", backend |-> "SQLTask", SUBDIR |-> "ora",
     name__ |-> <<"A","s","s","e","s","s","m","e","n","t","A","s","s","e","s","s","m","e","n","t","T","a","s","k">>,
     NAME |-> <<"a","s","s","e","s","s","m","e","n","t","_","a","s","s","e","s","s","m","e","n","t">>,
     EXT |-> <<"s","q","l">>],
    [cls |-> "AssessmentAssessmentFeedbackTask", scope |-> "CourseTask", backend |-> "SQLTask", SUBDIR |-> "ora",
     name__ |-> <<"A","s","s","e","s","s","m","e","n","t","A","s","s","e","s","s","m","e","n","t","F","e","e","d","b","a","c","k","T","a","s","k">>,
     NAME |-> <<"a","s","s","e","s","s","m","e","n","t","_","a","s","s","e","s","s","m","e","n","t","f","e","e","d","b","a","c","k">>,
     EXT |-> <<"s","q","l">>],
    [cls |-> "AssessmentAssessmentFeedbackAssessmentsTask", scope |-> "CourseTask", backend |-> "SQLTask", SUBDIR |-> "ora",
     name__ |-> <<"A","s","s","e","s","s","m","e","n","t","A","s","s","e","s","s","m","e","n","t","F","e","e","d","b","a","c","k","A","s","s","e","s","s","m","e","n","t","s","T","a","s","k">>,
     NAME |-> <<"a","s","s","e","s","s","m","e","n","t","_","a","s","s","e","s","s","m","e","n","t","f","e","e","d","b","a","c","k","_","a","s","s","e","s","s","m","e","n","t","s">>,
     EXT |-> <<"s","q","l">>],
    [cls |-> "AssessmentAssessmentFeedbackOptionsTask", scope |-> "CourseTask", backend |-> "SQLTask", SUBDIR |-> "ora",
     name__ |-> <<"A","s","s","e","s","s","m","e","n","t","A","s","s","e","s","s","m","e","n","t","F","e","e","d","b","a","c","k","O","p","t","i","o","n","s","T","a","s","k">>,
     NAME |-> <<"a","s","s","e","s","s","m","e","n","t","_","a","s","s","e","s","s","m","e","n","t","f","e","e","d","b","a","c","k","_","o","p","t","i","o","n","s">>,
     EXT |-> <<"s","q","l">>],
    [cls |-> "AssessmentAssessmentFeedbackOptionTask", scope |-> "CourseTask", backend |-> "SQLTask", SUBDIR |-> "ora",
     name__ |-> <<"A","s","s","e","s","s","m","e","n","t","A","s","s","e","s","s","m","e","n","t","F","e","e","d","b","a","c","k","O","p","t","i","o","n","T","a","s","k">>,
     NAME |-> <<"a","s","s","e","s","s","m","e","n","t","_","a","s","s","e","s","s","m","e","n","t","f","e","e","d","b","a","c","k","o","p","t","i","o","n">>,
     EXT |-> <<"s","q","l">>],
    [cls |-> "AssessmentAssessmentPartTask", scope |-> "CourseTask", backend |-> "SQLTask", SUBDIR |-> "ora",
     name__ |-> <<"A","s","s","e","s","s","m","e","n","t","A","s","s","e","s","s","m","e","n","t","P","a","r","t","T","a","s","k">>,
     NAME |-> <<"a","s","s","e","s","s","m","e","n","t","_","a","s","s","e","s","s","m","e","n","t","p","a","r","t">>,
     EXT |-> <<"s","q","l">>],
    [cls |-> "AssessmentCriterionTask", scope |-> "CourseTask", backend |-> "SQLTask", SUBDIR |-> "ora",
     name__ |-> <<"A","s","s","e","s","s","m","e","n","t","C","r","i","t","e","r","i","o","n","T","a","s","k">>,
     NAME |-> <<"a","s","s","e","s","s","m","e","n","t","_","c","r","i","t","e","r","i","o","n">>,
     EXT |-> <<"s","q","l">>],
    [cls |-> "AssessmentCriterionOptionTask", scope |-> "CourseTask", backend |-> "SQLTask", SUBDIR |-> "ora",
     name__ |-> <<"A","s","s","e","s","s","m","e","n","t","C","r","i","t","e","r","i","o","n","O","p","t","i","o","n","T","a","s","k">>,
     NAME |-> <<"a","s","s","e","s","s","m","e","n","t","_","c","r","i","t","e","r","i","o","n","o","p","t","i","o","n">>,
     EXT |-> <<"s","q","l">>],
    [cls |-> "AssessmentPeerWorkflowTask", scope |-> "CourseTask", backend |-> "SQLTask", SUBDIR |-> "ora",
     name__ |-> <<"A","s","s","e","s","s","m","e","n","t","P","e","e","r","W","o","r","k","f","l","o","w","T","a","s","k">>,
     NAME |-> <<"a","s","s","e","s","s","m","e","n","t","_","p","e","e","r","w","o","r","k","f","l","o","w">>,
     EXT |-> <<"s","q","l">>],
    [cls |-> "AssessmentPeerWorkflowItemTask", scope |-> "CourseTask", backend |-> "SQLTask", SUBDIR |-> "ora",
     name__ |-> <<"A","s","s","e","s","s","m","e","n","t","P","e","e","r","W","o","r","k","f","l","o","w","I","t","e","m","T","a","s","k">>,
     NAME |-> <<"a","s","s","e","s","s","m","e","n","t","_","p","e","e","r","w","o","r","k","f","l","o","w","i","t","e","m">>,
     EXT |-> <<"s","q","l">>],
    [cls |-> "AssessmentRubricTask", scope |-> "CourseTask", backend |-> "SQLTask", SUBDIR |-> "ora",
     name__ |-> <<"A","s","s","e","s","s","m","e","n","t","R","u","b","r","i","c","T","a","s","k">>,
     NAME |-> <<"a","s","s","e","s","s","m","e","n","t","_","r","u","b","r","i","c">>,
     EXT |-> <<"s","q","l">>],
    [cls |-> "AssessmentStudentTrainingWorkflow", scope |-> "CourseTask", backend |-> "SQLTask", SUBDIR |-> "ora",
     name__ |-> <<"A","s","s","e","s","s","m","e","n","t","S","t","u","d","e","n","t","T","r","a","i","n","i","n","g","W","o","r","k","f","l","o","w">>,
     NAME |-> <<"a","s","s","e","s","s","m","e","n","t","_","s","t","u","d","e","n","t","t","r","a","i","n","i","n","g","w","o","r","k","f","l","o","w">>,
     EXT |-> <<"s","q","l">>],
    [cls |-> "AssessmentStudentTrainingWorkflowItemTask", scope |-> "CourseTask", backend |-> "SQLTask", SUBDIR |-> "ora",
     name__ |-> <<"A","s","s","e","s","s","m","e","n","t","S","t","u","d","e","n","t","T","r","a","i","n","i","n","g","W","o","r","k","f","l","o","w","I","t","e","m","T","a","s","k">>,
     NAME |-> <<"a","s","s","e","s","s","m","e","n","t","_","s","t","u","d","e","n","t","t","r","a","i","n","i","n","g","w","o","r","k","f","l","o","w","i","t","e","m">>,
     EXT |-> <<"s","q","l">>],
    [cls |-> "AssessmentTrainingExampleTask", scope |-> "CourseTask", backend |-> "SQLTask", SUBDIR |-> "ora",
     name__ |-> <<"A","s","s","e","s","s","m","e","n","t","T","r","a","i","n","i","n","g","E","x","a","m","p","l","e","T","a","s","k">>,
     NAME |-> <<"a","s","s","e","s","s","m","e","n","t","_","t","r","a","i","n","i","n","g","e","x","a","m","p","l","e">>,
     EXT |-> <<"s","q","l">>],
    [cls |-> "AssessmentTrainingExampleOptionsSelectedTask", scope |-> "CourseTask", backend |-> "SQLTask", SUBDIR |-> "ora",
     name__ |-> <<"A","s","s","e","s","s","m","e","n","t","T","r","a","i","n","i","n","g","E","x","a","m","p","l","e","O","p","t","i","o","n","s","S","e","l","e","c","t","e","d","T","a","s","k">>,
     NAME |-> <<"a","s","s","e","s","s","m","e","n","t","_","t","r","a","i","n","i","n","g","e","x","a","m","p","l","e","_","o","p","t","i","o","n","s","_","s","e","l","e","c","t","e","d">>,
     EXT |-> <<"s","q","l">>],
    [cls |-> "SubmissionsScoreTask", scope |-> "CourseTask", backend |-> "SQLTask", SUBDIR |-> "ora",
     name__ |-> <<"S","u","b","m","i","s","s","i","o","n","s","S","c","o","r","e","T","a","s","k">>,
     NAME |-> <<"s","u","b","m","i","s","s","i","o","n","s","_","s","c","o","r","e">>,
     EXT |-> <<"s","q","l">>],
    [cls |-> "SubmissionsScoreSummaryTask", scope |-> "CourseTask", backend |-> "SQLTask", SUBDIR |-> "ora",
     name__ |-> <<"S","u","b","m","i","s","s","i","o","n","s","S","c","o","r","e","S","u","m","m","a","r","y","T","a","s","k">>,
     NAME |-> <<"s","u","b","m","i","s","s","i","o","n","s","_","s","c","o","r","e","s","u","m","m","a","r","y">>,
     EXT |-> <<"s","q","l">>],
    [cls |-> "SubmissionsStudentItemTask", scope |-> "CourseTask", backend |-> "SQLTask", SUBDIR |-> "ora",
     name__ |-> <<"S","u","b","m","i","s","s","i","o","n","s","S","t","u","d","e","n","t","I","t","e","m","T","a","s","k">>,
     NAME |-> <<"s","u","b","m","i","s","s","i","o","n","s","_","s","t","u","d","e","n","t","i","t","e","m">>,
     EXT |-> <<"s","q","l">>],
    [cls |-> "SubmissionsSubmissionTask", scope |-> "CourseTask", backend |-> "SQLTask", SUBDIR |-> "ora",
     name__ |-> <<"S","u","b","m","i","s","s","i","o","n","s","S","u","b","m","i","s","s","i","o","n","T","a","s","k">>,
     NAME |-> <<"s","u","b","m","i","s","s","i","o","n","s","_","s","u","b","m","i","s","s","i","o","n">>,
     EXT |-> <<"s","q","l">>],
    [cls |-> "WorkflowAssessmentWorkflowTask", scope |-> "CourseTask", backend |-> "SQLTask", SUBDIR |-> "ora",
     name__ |-> <<"W","o","r","k","f","l","o","w","A","s","s","e","s","s","m","e","n","t","W","o","r","k","f","l","o","w","T","a","s","k">>,
     NAME |-> <<"w","o","r","k","f","l","o","w","_","a","s","s","e","s","s","m","e","n","t","w","o","r","k","f","l","o","w">>,
     EXT |-> <<"s","q","l">>],
    [cls |-> "WorkflowAssessmentWorkflowStepTask", scope |-> "CourseTask", backend |-> "SQLTask", SUBDIR |-> "ora",
     name__ |-> <<"W","o","r","k","f","l","o","w","A","s","s","e","s","s","m","e","n","t","W","o","r","k","f","l","o","w","S","t","e","p","T","a","s","k">>,
     NAME |-> <<"w","o","r","k","f","l","o","w","_","a","s","s","e","s","s","m","e","n","t","w","o","r","k","f","l","o","w","s","t","e","p">>,
     EXT |-> <<"s","q","l">>],
    [cls |-> "StudentAnonymousUserIDTask", scope |-> "CourseTask", backend |-> "SQLTask", SUBDIR |-> "NotSet",
     name__ |-> <<"S","t","u","d","e","n","t","A","n","o","n","y","m","o","u","s","U","s","e","r","I","D","T","a","s","k">>,
     NAME |-> <<"s","t","u","d","e","n","t","_","a","n","o","n","y","m","o","u","s","u","s","e","r","i","d">>,
     EXT |-> <<"s","q","l">>],
    [cls |-> "CourseCreditEligibilityTask", scope |-> "CourseTask", backend |-> "SQLTask", SUBDIR |-> "NotSet",
     name__ |-> <<"C","o","u","r","s","e","C","r","e","d","i","t","E","l","i","g","i","b","i","l","i","t","y","T","a","s","k">>,
     NAME |-> <<"c","r","e","d","i","t","_","c","r","e","d","i","t","e","l","i","g","i","b","i","l","i","t","y">>,
     EXT |-> <<"s","q","l">>],
    [cls |-> "CourseGroupCohortMembershipTask", scope |-> "CourseTask", backend |-> "SQLTask", SUBDIR |-> "NotSet",
     name__ |-> <<"C","o","u","r","s","e","G","r","o","u","p","C","o","h","o","r","t","M","e","m","b","e","r","s","h","i","p","T","a","s","k">>,
     NAME |-> <<"c","o","u","r","s","e","_","g","r","o","u","p","s","_","c","o","h","o","r","t","m","e","m","b","e","r","s","h","i","p">>,
     EXT |-> <<"s","q","l">>]
>>

\* the value None
None == [cls |-> "None"]

\* issubclass(task, task_cls) for task_cls one of OrgTask, CourseTask, Task
issubclass(task, task_cls) == task_cls = "Task" \/ task.scope = task_cls

TaskByCls(c) == CHOOSE t \in {DEFAULT_TASKS[i] : i \in 1..Len(DEFAULT_TASKS)} : t.cls = c

(***************************************************************************)
(* A dict is the sequence of its <<key, value>> items in insertion order,  *)
(* keys unique.  Iteration does not follow insertion order: CPython 2      *)
(* visits the slots of a hash table, and the slot of a key comes from the  *)
(* hash of the key.                                                        *)
(***************************************************************************)
DictKeys(d) == {d[i][1] : i \in 1..Len(d)}

DictGet(d, k) ==
    IF k \in DictKeys(d)
    THEN d[CHOOSE i \in 1..Len(d) : d[i][1] = k][2]
    ELSE None

\* the dict built by inserting the items one after the other: a key keeps
\* the place of its first insertion and the value of its last
DictFromItems(items) ==
    LET n == Len(items)
        first == SelectSeq(List([i \in 1..n |-> i]),
                     LAMBDA i : \A j \in 1..(i - 1) : items[j][1] # items[i][1])
        last(k) == CHOOSE i \in 1..n :
                      items[i][1] = k /\ \A j \in 1..n : items[j][1] = k => j <= i
    IN  List([m \in 1..Len(first) |-> <<items[first[m]][1], items[last(items[first[m]][1])][2]>>])

RECURSIVE StrHash(_, _, _)
StrHash(s, i, h) ==
    IF i > Len(s) THEN h ELSE StrHash(s, i + 1, (h * 33 + Ord(s[i])) % 61)

\* the table slot of a key under the interpreter's hash; seed 0 stands for
\* an interpreter whose dicts keep insertion order (Python 3.7 and later)
Slot(k, seed) == IF seed = 0 THEN 0 ELSE StrHash(k, 1, seed)

\* list(d.items()): slot order, insertion order among keys that collide
DictItems(d, seed) ==
    LET slotted == List([i \in 1..Len(d) |-> <<Slot(d[i][1], seed), i, d[i]>>])
        sorted  == SortSeq(slotted,
                      LAMBDA a, b : a[1] < b[1] \/ (a[1] = b[1] /\ a[2] < b[2]))
    IN  List([i \in 1..Len(d) |-> sorted[i][3]])

\* {task.__name__.lower(): task for task in tasks}
DictFromTasks(tasks) ==
    DictFromItems(List([i \in 1..Len(tasks) |-> <<lower(tasks[i].name__), tasks[i]>>]))

\* {key: mapping.get(key) for key in keys}
DictFromKeys(mapping, keys) ==
    DictFromItems(List([i \in 1..Len(keys) |-> <<keys[i], DictGet(mapping, keys[i])>>]))

\* exporter.util.filter_keys: the mapping itself when no key is asked for,
\* otherwise the asked keys with the mapping's value (None when absent)
filter_keys(mapping, keys) ==
    IF keys = <<>> THEN mapping ELSE DictFromKeys(mapping, keys)

TaskClasses == {"OrgTask", "CourseTask", "Task"}

\* available_tasks of main._get_selected_tasks, for each task_cls
available_tasks ==
    [task_cls \in TaskClasses |->
        DictFromTasks(SelectSeq(DEFAULT_TASKS, LAMBDA t : issubclass(t, task_cls)))]

\* mutant: the excluded names are compared as given, not lower-cased
_get_selected_tasks_excluded_as_given(task_cls, tasks_from_options, excluded_tasks, seed) ==
    LET requested_task_names ==
            List([i \in 1..Len(tasks_from_options) |-> lower(tasks_from_options[i])])
        excluded_task_names ==
            {excluded_tasks[i] : i \in 1..Len(excluded_tasks)}
        filtered_tasks == filter_keys(available_tasks[task_cls], requested_task_names)
        items == DictItems(filtered_tasks, seed)
        kept  == SelectSeq(items, LAMBDA it : it[2] # None /\ it[1] \notin excluded_task_names)
    IN  List([i \in 1..Len(kept) |-> kept[i][2]])

\* mutant: the requested names are looked up as given, not lower-cased
_get_selected_tasks_requested_as_given(task_cls, tasks_from_options, excluded_tasks, seed) ==
    LET requested_task_names == tasks_from_options
        excluded_task_names ==
            {lower(excluded_tasks[i]) : i \in 1..Len(excluded_tasks)}
        filtered_tasks == filter_keys(available_tasks[task_cls], requested_task_names)
        items == DictItems(filtered_tasks, seed)
        kept  == SelectSeq(items, LAMBDA it : it[2] # None /\ it[1] \notin excluded_task_names)
    IN  List([i \in 1..Len(kept) |-> kept[i][2]])

\* mutant: one task per requested name, taken from the list of names
\* instead of from the filtered dict
_get_selected_tasks_per_name(task_cls, tasks_from_options, excluded_tasks, seed) ==
    LET requested_task_names ==
            List([i \in 1..Len(tasks_from_options) |-> lower(tasks_from_options[i])])
        excluded_task_names ==
            {lower(excluded_tasks[i]) : i \in 1..Len(excluded_tasks)}
        items ==
            IF requested_task_names = <<>>
            THEN DictItems(available_tasks[task_cls], seed)
            ELSE List([i \in 1..Len(requested_task_names) |->
                        <<requested_task_names[i],
                          DictGet(available_tasks[task_cls], requested_task_names[i])>>])
        kept  == SelectSeq(items, LAMBDA it : it[2] # None /\ it[1] \notin excluded_task_names)
    IN  List([i \in 1..Len(kept) |-> kept[i][2]])

\* main._get_selected_tasks
_get_selected_tasks(task_cls, tasks_from_options, excluded_tasks, seed) ==
    LET requested_task_names ==
            List([i \in 1..Len(tasks_from_options) |-> lower(tasks_from_options[i])])
        excluded_task_names ==
            {lower(excluded_tasks[i]) : i \in 1..Len(excluded_tasks)}
        filtered_tasks == filter_keys(available_tasks[task_cls], requested_task_names)
        items == DictItems(filtered_tasks, seed)
        kept  == SelectSeq(items, LAMBDA it : it[2] # None /\ it[1] \notin excluded_task_names)
    IN  List([i \in 1..Len(kept) |-> kept[i][2]])

(***************************************************************************)
(* Course keys and filenames.                                              *)
(***************************************************************************)
PROD == <<"p","r","o","d">>
EDGE == <<"e","d","g","e">>

COURSE_V1 == <<"c","o","u","r","s","e","-","v","1",":">>
CCX_V1 == <<"c","c","x","-","v","1",":">>
CCX_AT == <<"c","c","x","@">>

InvalidKey == [ok |-> FALSE]

\* a key of three parts: org, course and run
CourseLocator(parts) ==
    IF Len(parts) = 3 /\ \A i \in 1..3 : parts[i] # <<>>
    THEN [ok |-> TRUE, org |-> parts[1], course |-> parts[2], run |-> parts[3],
          has_ccx |-> FALSE, ccx |-> <<>>]
    ELSE InvalidKey

\* a key of four parts: org, course, run and ccx@id
CCXLocator(parts) ==
    IF Len(parts) = 4 /\ (\A i \in 1..4 : parts[i] # <<>>)
                      /\ StartsWith(parts[4], CCX_AT) /\ Len(parts[4]) > Len(CCX_AT)
    THEN [ok |-> TRUE, org |-> parts[1], course |-> parts[2], run |-> parts[3],
          has_ccx |-> TRUE, ccx |-> SubSeq(parts[4], Len(CCX_AT) + 1, Len(parts[4]))]
    ELSE InvalidKey

\* CourseKey.from_string of opaque_keys: course-v1:org+course+run,
\* ccx-v1:org+course+run+ccx@id, the old org/course/run, or InvalidKeyError
CourseKey_from_string(course_id) ==
    IF StartsWith(course_id, COURSE_V1)
    THEN CourseLocator(Split(SubSeq(course_id, Len(COURSE_V1) + 1, Len(course_id)), "+"))
    ELSE IF StartsWith(course_id, CCX_V1)
    THEN CCXLocator(Split(SubSeq(course_id, Len(CCX_V1) + 1, Len(course_id)), "+"))
    ELSE CourseLocator(Split(course_id, "/"))

\* tasks._substitute_non_ascii_chars
_substitute_non_ascii_chars(string) ==
    List([i \in 1..Len(string) |-> IF Ord(string[i]) > 128 THEN "_" ELSE string[i]])

\* CourseTask.get_course_name, for a course id that parses
course_name_of_key(course_key) ==
    IF course_key.has_ccx
    THEN Join(<<"-">>, <<course_key.org, course_key.course, course_key.run,
                         <<"c","c","x">>, course_key.ccx>>)
    ELSE Join(<<"-">>, <<course_key.org, course_key.course, course_key.run>>)

get_course_name(course_id) == course_name_of_key(CourseKey_from_string(course_id))

\* OrgTask.entity_name and CourseTask.entity_name
entity_name(task, kwargs) ==
    IF task.scope = "OrgTask"
    THEN _substitute_non_ascii_chars(kwargs.organization)
    ELSE _substitute_non_ascii_chars(get_course_name(kwargs.course))

\* the numbers of the filename tests: the ceiling of a filename, the
\* longest stem they accept, the length of a long name
MAX_FILENAME_LENGTH == 255
MAX_STEM_LENGTH == 235
LONG_NAME_LENGTH == 1000

\* FilenameMixin.get_filename_template: "{entity}-{task}-{name}.{extension}"
get_filename_template_truncated(task, kwargs) ==
    LET stem == entity_name(task, kwargs) \o <<"-">> \o task.NAME \o <<"-">> \o kwargs.name
        ceiling == MAX_FILENAME_LENGTH - 1 - Len(task.EXT)
    IN  (IF Len(stem) > ceiling THEN SubSeq(stem, 1, ceiling) ELSE stem)
            \o <<".">> \o task.EXT

get_filename_template(task, kwargs) ==
    entity_name(task, kwargs) \o <<"-">> \o task.NAME \o <<"-">> \o kwargs.name
        \o <<".">> \o task.EXT

\* the characters of a name as the one string the file system sees
RECURSIVE Str(_)
Str(s) ==
    IF Len(s) = 0 THEN ""
    ELSE IF Len(s) = 1 THEN s[1]
    ELSE Str(SubSeq(s, 1, Len(s) \div 2)) \o Str(SubSeq(s, Len(s) \div 2 + 1, Len(s)))

\* A path is a directory (the components below the root of the run) and a
\* basename, each a string of the file system.
Path(dir, base) == [dir |-> dir, base |-> base]

\* the filename that get_filename computes, before the directory is ensured
filename_of_without_subdir(task, kwargs) ==
    IF task.cls = "ForumsTask"
    THEN Path(kwargs.work_dir,
              Str(entity_name(task, kwargs) \o <<"-">> \o kwargs.environment
                      \o <<".">> \o task.EXT))
    ELSE Path(kwargs.work_dir, Str(get_filename_template(task, kwargs)))

filename_of(task, kwargs) ==
    IF task.cls = "ForumsTask"
    THEN Path(kwargs.work_dir,
              Str(entity_name(task, kwargs) \o <<"-">> \o kwargs.environment
                      \o <<".">> \o task.EXT))
    ELSE IF task.scope = "CourseTask" /\ task.SUBDIR # "NotSet"
    THEN Path(Append(kwargs.work_dir, task.SUBDIR), Str(get_filename_template(task, kwargs)))
    ELSE Path(kwargs.work_dir, Str(get_filename_template(task, kwargs)))

\* FilenameMixin.ensure_filename_directory_exists, on the set of directories;
\* ForumsTask.get_filename does not call it
ensure_filename_directory_exists(task, ds, filename) ==
    IF task.cls = "ForumsTask" \/ filename.dir \in ds THEN ds ELSE ds \cup {filename.dir}

FAILED_SUFFIX == ".failed"
FAILED_MESSAGE == "An error occurred generating this file.\n"

\* the path that write_failed_file writes: filename + '.failed'
failed_filename_of(filename) == Path(filename.dir, filename.base \o FAILED_SUFFIX)

GPG_SUFFIX == ".gpg"
ZIP_SUFFIX == ".zip"

\* the file system: files is a function from paths to contents
remove(fs, path) == [q \in (DOMAIN fs) \ {path} |-> fs[q]]
write(fs, path, content) == (path :> content) @@ fs
exists(fs, path) == path \in DOMAIN fs

\* FilenameMixin.write_failed_file on the files
write_failed_file_keeps_output(fs, filename) ==
    write(fs, failed_filename_of(filename), FAILED_MESSAGE)

write_failed_file(fs, filename) ==
    LET removed == IF exists(fs, filename) THEN remove(fs, filename) ELSE fs
    IN  write(removed, failed_filename_of(filename), FAILED_MESSAGE)

(***************************************************************************)
(* What a task's backend can do.  An outcome says which exception run()    *)
(* raises ("None": it returns), what it wrote to its output file before,   *)
(* and at which external call it ended.                                    *)
(***************************************************************************)
Outcome(exc, wrote, at) == [exc |-> exc, wrote |-> wrote, at |-> at]

\* CopyS3FileTask.run
CopyS3FileTask_outcomes(dry_run) ==
    {Outcome("FatalTaskError", "nothing", "aws")} \cup
    IF dry_run
    THEN {Outcome("None", "nothing", "dry_run")}
    ELSE {Outcome("FatalTaskError", "nothing", "marker"),
          Outcome("None", "nothing", "source"),
          Outcome("None", "data", "copy"),
          Outcome("Exception", "partial", "copy"),
          Outcome("Exception", "nothing", "copy")}

\* SQLTask.run, MongoTask.run, DjangoAdminTask.run: building the command can
\* raise (a value missing from the configuration), the command can fail
shell_outcomes(dry_run) ==
    IF dry_run
    THEN {Outcome("None", "nothing", "dry_run"), Outcome("Exception", "nothing", "format")}
    ELSE {Outcome("None", "data", "command"),
          Outcome("Exception", "partial", "command"),
          Outcome("Exception", "nothing", "command")}

\* the external commands that a run of the task has executed when it ends
\* with the outcome
commands_of_outcome(task, outcome) ==
    IF outcome.at = "marker" THEN {"aws s3api head-object"}
    ELSE IF outcome.at = "source" THEN {"aws s3api head-object"}
    ELSE IF outcome.at = "copy" THEN {"aws s3api head-object", "aws s3 cp"}
    ELSE IF outcome.at = "command"
    THEN {IF task.backend = "SQLTask" THEN "mysql"
          ELSE IF task.backend = "MongoTask" THEN "mongoexport"
          ELSE "django-admin"}
    ELSE {}

\* the outcomes when every external call delivers
expected(dry_run) ==
    IF dry_run THEN {Outcome("None", "nothing", "dry_run")}
    ELSE {Outcome("None", "data", "copy"), Outcome("None", "data", "command")}

outcomes(task, dry_run) ==
    IF task.backend = "CopyS3FileTask" THEN CopyS3FileTask_outcomes(dry_run)
    ELSE shell_outcomes(dry_run)

\* Task.run on the files
task_run(fs, filename, outcome) ==
    IF outcome.wrote = "nothing" THEN fs ELSE write(fs, filename, outcome.wrote)

(***************************************************************************)
(* main._run_task: the files and directories it leaves, the exception it   *)
(* raises ("None": it returns) and the path it returns.                    *)
(***************************************************************************)
_run_task_downgrades_fatal(task, kwargs, outcome, fs, ds) ==
    LET filename == filename_of(task, kwargs)
        ds1 == ensure_filename_directory_exists(task, ds, filename)
        fs1 == task_run(fs, filename, outcome)
    IN  IF outcome.exc = "None"
        THEN [files |-> fs1, dirs |-> ds1, exc |-> "None", returned |-> <<filename>>]
        ELSE [files |-> write_failed_file(fs1, filename), dirs |-> ds1, exc |-> "None",
              returned |-> <<failed_filename_of(filename)>>]

_run_task_reraises(task, kwargs, outcome, fs, ds) ==
    LET filename == filename_of(task, kwargs)
        ds1 == ensure_filename_directory_exists(task, ds, filename)
        fs1 == task_run(fs, filename, outcome)
    IN  IF outcome.exc = "None"
        THEN [files |-> fs1, dirs |-> ds1, exc |-> "None", returned |-> <<filename>>]
        ELSE [files |-> fs1, dirs |-> ds1, exc |-> outcome.exc, returned |-> <<>>]

_run_task_swallows_fatal(task, kwargs, outcome, fs, ds) ==
    LET filename == filename_of(task, kwargs)
        ds1 == ensure_filename_directory_exists(task, ds, filename)
        fs1 == task_run(fs, filename, outcome)
    IN  IF outcome.exc = "None"
        THEN [files |-> fs1, dirs |-> ds1, exc |-> "None", returned |-> <<filename>>]
        ELSE IF outcome.exc = "FatalTaskError"
        THEN [files |-> fs1, dirs |-> ds1, exc |-> "None", returned |-> <<>>]
        ELSE [files |-> write_failed_file(fs1, filename), dirs |-> ds1, exc |-> "None",
              returned |-> <<failed_filename_of(filename)>>]

_run_task(task, kwargs, outcome, fs, ds) ==
    LET filename == filename_of(task, kwargs)
        ds1 == ensure_filename_directory_exists(task, ds, filename)
        fs1 == task_run(fs, filename, outcome)
    IN  IF outcome.exc = "None"
        THEN [files |-> fs1, dirs |-> ds1, exc |-> "None", returned |-> <<filename>>]
        ELSE IF outcome.exc = "FatalTaskError"
        THEN [files |-> fs1, dirs |-> ds1, exc |-> "FatalTaskError", returned |-> <<>>]
        ELSE [files |-> write_failed_file(fs1, filename), dirs |-> ds1, exc |-> "None",
              returned |-> <<failed_filename_of(filename)>>]

\* task.run: the keys that the task sets in the kwargs it received
\* (OrgEmailOptInTask.run, CourseWikiTask.run)
task_sets(task, kwargs) ==
    IF task.cls = "OrgEmailOptInTask"
    THEN [comma_sep_courses |-> Join(<<",">>, kwargs.courses),
          all_organizations |-> kwargs.organization,
          max_tries |-> 3]
    ELSE IF task.cls \in {"WikiArticleTask", "WikiArticleRevisionTask"}
    THEN [slug |-> CourseKey_from_string(kwargs.course).course]
    ELSE <<>>

\* run_tasks, one iteration: the dicts after task.run.  original_kwargs is
\* the dict of run_tasks, kwargs its copy, received the dict that the
\* `**kwargs` of the calls pack for task.run, as it was on entry, and
\* after the same dict when task.run is done
run_tasks_dicts_shared(task, original) ==
    [original_kwargs |-> task_sets(task, original) @@ original,
     kwargs |-> task_sets(task, original) @@ original,
     received |-> original,
     after |-> task_sets(task, original) @@ original]

run_tasks_dicts(task, original) ==
    [original_kwargs |-> original,
     kwargs |-> original,
     received |-> original,
     after |-> task_sets(task, original) @@ original]

\* run_tasks: the task that is skipped
ignored_nothing(task, kwargs) == FALSE

ignored(task, kwargs) == task.cls = "OrgEmailOptInTask" /\ kwargs.environment = EDGE

(***************************************************************************)
(* The configuration and the platform that a run of main() meets.          *)
(***************************************************************************)
OX == <<"o","x">>
OY == <<"o","y">>
\* str(datetime.date.today()), which nothing looks into
TODAY == "YYYY-MM-DD"

COURSE_1 == COURSE_V1 \o <<"o","x","+","C","1","+","2","4">>
COURSE_2 == COURSE_V1 \o <<"O","X","+","C","2","+","2","4">>
COURSE_3 == COURSE_V1 \o <<"o","y","+","C","1","+","2","4">>

\* the course ids that dump_course_ids prints in an environment
Listing(environment) ==
    IF environment = PROD THEN <<COURSE_2, COURSE_3, COURSE_1>> ELSE <<COURSE_1>>

\* the section of an environment in the configuration file
EnvironmentSection(environment) ==
    [name |-> environment, django_settings |-> "lms.envs." \o Str(environment)]

OrganizationOrders == {<<OX, OY>>}
EnvironmentOrders == {<<PROD, EDGE>>, <<EDGE, PROD>>}

TaskPool ==
    <<TaskByCls("OrgEmailOptInTask").name__,
      lower(TaskByCls("UserIDMapTask").name__),
      TaskByCls("StudentModuleTask").name__,
      upper(TaskByCls("ForumsTask").name__),
      TaskByCls("AssessmentRubricTask").name__,
      TaskByCls("WikiArticleTask").name__>>

\* the inclusion lists given to a run: MaxTasks consecutive names of TaskPool
TaskOptions ==
    {SubSeq(TaskPool, i, i + MaxTasks - 1) : i \in 1..(Len(TaskPool) - MaxTasks + 1)}

ExcludeOptions == {<<>>, <<TaskByCls("UserIDMapTask").name__>>}

Configs ==
    {[organizations |-> o, environments |-> e, dry_run |-> d, tasks |-> t,
      exclude_task |-> x, courses |-> <<>>] :
        o \in OrganizationOrders, e \in EnvironmentOrders, d \in BOOLEAN,
        t \in TaskOptions, x \in ExcludeOptions}

\* config.get_config_for_org
get_config_for_org(config, organization) ==
    [organization |-> organization, environments |-> config.environments,
     dry_run |-> config.dry_run, tasks |-> config.tasks,
     exclude_task |-> config.exclude_task, courses |-> config.courses]

\* config.get_config_for_env
get_config_for_env(config, environment) ==
    [environment |-> environment] @@ EnvironmentSection(environment) @@ config

\* main.filter_courses, on a set of course ids that parse
filter_courses_case_sensitive(course_set, organization_names) ==
    {course \in course_set :
        CourseKey_from_string(course).org
            \in {organization_names[i] : i \in 1..Len(organization_names)}}

filter_courses(course_set, organization_names) ==
    {course \in course_set :
        lower(CourseKey_from_string(course).org)
            \in {lower(organization_names[i]) : i \in 1..Len(organization_names)}}

\* sorted(): the strings of a set in ascending order
sorted(S) == SortSeq(CHOOSE q \in [1..Cardinality(S) -> S] : \A x \in S : \E i \in DOMAIN q : q[i] = x,
                     LAMBDA x, y : StrLess(x, y, 1))

\* the keys of a configuration that start with 'django'
DjangoKeys == {"django_admin", "django_settings", "django_pythonpath", "django_config"}
other_options == {"lms_config", "studio_config", "time_constraint"}

\* main.get_all_courses: the arguments it passes to _find_all_courses
get_all_courses_kwargs_keeps_dry_run(kwargs) ==
    [limit |-> FALSE]
        @@ [k \in (DOMAIN kwargs) \cap (DjangoKeys \cup other_options \cup {"dry_run"}) |->
               kwargs[k]]

get_all_courses_kwargs(kwargs) ==
    [dry_run |-> FALSE, limit |-> FALSE]
        @@ [k \in (DOMAIN kwargs) \cap (DjangoKeys \cup other_options) |-> kwargs[k]]

\* what the listing command prints with the given arguments
ListingOf(kwargs) ==
    Listing(CHOOSE e \in {PROD, EDGE} :
                EnvironmentSection(e).django_settings = kwargs.django_settings)

\* util.memoize: whether the result of a call with these arguments is kept
memoize_never_cached(m, kwargs) == FALSE

memoize_cached(m, kwargs) == kwargs \in DOMAIN m

\* the memoized main._find_all_courses with the cache m: the results it
\* can have.  ran: the listing command was run; failed: the command raised,
\* which the function turns into the empty list
_find_all_courses(m, kwargs) ==
    IF memoize_cached(m, kwargs)
    THEN {[memo |-> m, kwargs |-> kwargs, ran |-> FALSE, failed |-> FALSE,
           courses |-> m[kwargs]]}
    ELSE {[memo |-> (kwargs :> ListingOf(kwargs)) @@ m, kwargs |-> kwargs, ran |-> TRUE,
           failed |-> FALSE, courses |-> ListingOf(kwargs)],
          [memo |-> (kwargs :> <<>>) @@ m, kwargs |-> kwargs, ran |-> TRUE,
           failed |-> TRUE, courses |-> <<>>]}

\* main.get_org_courses, given what get_all_courses returns
get_org_courses(organization, kwargs, all_courses) ==
    LET configured == {kwargs.courses[i] : i \in 1..Len(kwargs.courses)}
        listed == {all_courses[i] : i \in 1..Len(all_courses)}
        selected == IF configured # {} /\ listed # {} THEN configured \cap listed
                    ELSE IF listed # {} THEN listed
                    ELSE configured
    IN  sorted(filter_courses(selected,
                              <<organization>> \o (IF "other_names" \in DOMAIN kwargs
                                                   THEN kwargs.other_names ELSE <<>>)))

\* main.make_org_directory: the temporary directory and the directory in it
temp_dir_of(organization) == <<Str(organization) \o "_">>
org_dir_of(organization) ==
    Append(temp_dir_of(organization), Str(organization) \o "-" \o TODAY)

IsUnder(dir, parent) == Len(dir) >= Len(parent) /\ SubSeq(dir, 1, Len(parent)) = parent

NoArchive == [name |-> <<>>, contents |-> {}]

(***************************************************************************)
(* The locals of main() and export_organization_data() at the current      *)
(* position.                                                               *)
(***************************************************************************)
organization == general_config.organizations[organization_idx]
config == get_config_for_org(general_config, organization)
destination == org_dir_of(organization)
environment == config.environments[environment_idx]

\* kwargs of export_organization_data, after kwargs['courses'] = courses
env_kwargs(course_list) ==
    [work_dir |-> destination, courses |-> course_list]
        @@ get_config_for_env(config, environment)

\* the keyword arguments of the current run_tasks call
run_tasks_kwargs_first_course ==
    IF course_idx = 0 THEN env_kwargs(courses)
    ELSE [course |-> courses[1]] @@ env_kwargs(courses)

run_tasks_kwargs ==
    IF course_idx = 0 THEN env_kwargs(courses)
    ELSE [course |-> courses[course_idx]] @@ env_kwargs(courses)

\* a list of task classes, each class given by its name
Classes(tasks) == List([i \in 1..Len(tasks) |-> tasks[i].cls])

ClassNames == {DEFAULT_TASKS[i].cls : i \in 1..Len(DEFAULT_TASKS)}
TaskOfClass == [c \in ClassNames |-> TaskByCls(c)]

org_tasks ==
    Classes(_get_selected_tasks("OrgTask", config.tasks, config.exclude_task, hash_seed))
course_tasks ==
    Classes(_get_selected_tasks("CourseTask", config.tasks, config.exclude_task, hash_seed))

(***************************************************************************)
(* The run of main().                                                      *)
(***************************************************************************)
SelectIdle ==
    /\ sel_pc = "idle"
    /\ sel_task_cls = "Task"
    /\ sel_tasks_from_options = <<>>
    /\ sel_excluded_tasks = <<>>
    /\ sel_result = <<>>

FilenameIdle ==
    /\ fn_pc = 0
    /\ fn_calls = <<>>
    /\ fn_returned = <<>>
    /\ fn_dirs = <<>>

CoursesIdle ==
    /\ gc_pc = "idle"
    /\ gc_kwargs = <<>>
    /\ gc_all_courses = <<>>
    /\ gc_result = <<>>

ShellIdle ==
    /\ sh_op = "none"
    /\ sh_pc = "idle"
    /\ sh_world = <<>>
    /\ sh_kwargs = <<>>
    /\ sh_calls = <<>>
    /\ sh_exc = "None"
    /\ sh_wrote = FALSE

MetricsIdle ==
    /\ mt_pc = "idle"
    /\ mt_kwargs = <<>>
    /\ mt_run = <<>>
    /\ mt_client = <<>>
    /\ mt_sends = <<>>
    /\ mt_metrics = {}
    /\ mt_outcome = <<>>

SingleOrgIdle ==
    /\ so_pc = "idle"
    /\ so_program_options = <<>>
    /\ so_config = <<>>
    /\ so_courses = <<>>
    /\ so_course_idx = 0
    /\ so_ran = <<>>
    /\ so_dirs = {}
    /\ so_exception = "None"

CourseExportIdle ==
    /\ ce_pc = "idle"
    /\ ce_config = <<>>
    /\ ce_environment_idx = 0
    /\ ce_listings = <<>>
    /\ ce_courses = {}
    /\ ce_courses_with_env = <<>>
    /\ ce_course_idx = 0
    /\ ce_dirs = {}
    /\ ce_ran = <<>>
    /\ ce_results = <<>>
    /\ ce_uploaded = <<>>
    /\ ce_exception = "None"

AuxIdle == CoursesIdle /\ ShellIdle /\ MetricsIdle /\ SingleOrgIdle /\ CourseExportIdle

MainIdle ==
    /\ pc = "main"
    /\ organization_idx = 0
    /\ environment_idx = 0
    /\ course_idx = 0
    /\ task_idx = 0
    /\ courses = <<>>
    /\ task_list = <<>>
    /\ rt_results = <<>>
    /\ results = <<>>
    /\ files = <<>>
    /\ dirs = {}
    /\ memo = <<>>
    /\ archive = NoArchive
    /\ uploaded = <<>>
    /\ exception = "None"
    /\ rt_log = <<>>
    /\ steps = <<>>
    /\ gpg_failed = {}
    /\ placeholders = {}
    /\ failures = 0
    /\ original_kwargs = <<>>
    /\ listing_calls = <<>>
    /\ export_log = <<>>
    /\ commands = {}

Init ==
    /\ general_config \in Configs
    /\ hash_seed = MaxHashSeed
    /\ MainIdle
    /\ SelectIdle
    /\ FilenameIdle
    /\ AuxIdle

\* main: the next organization of the loop, get_config_for_org and the
\* entry of `with make_org_directory(config, organization) as destination`
main_enter_organization ==
    /\ pc = "main"
    /\ organization_idx < Len(general_config.organizations)
    /\ organization_idx' = organization_idx + 1
    /\ LET next_organization == general_config.organizations[organization_idx + 1]
       IN  dirs' = dirs \cup {temp_dir_of(next_organization), org_dir_of(next_organization)}
    /\ environment_idx' = 0
    /\ results' = <<>>
    /\ steps' = <<>>
    /\ gpg_failed' = {}
    /\ placeholders' = {}
    /\ archive' = NoArchive
    /\ export_log' = <<>>
    /\ pc' = "export"
    /\ UNCHANGED <<general_config, hash_seed, sel_vars, fn_vars, aux_vars, commands, original_kwargs, listing_calls, course_idx, task_idx, courses,
                   task_list, rt_results, files, memo, uploaded, exception, rt_log, failures>>

\* main: the loop over the organizations is over
main_return ==
    /\ pc = "main"
    /\ organization_idx = Len(general_config.organizations)
    /\ pc' = "done"
    /\ UNCHANGED <<placeholders, general_config, hash_seed, sel_vars, fn_vars, aux_vars, commands, export_log, original_kwargs, listing_calls, organization_idx, environment_idx,
                   course_idx, task_idx, courses, task_list, rt_results, results, files,
                   dirs, memo, archive, uploaded, exception, rt_log, steps, gpg_failed,
                   failures>>

\* export_organization_data: the next environment of the loop, up to the
\* call run_tasks(org_tasks, **kwargs).  _find_all_courses runs the listing
\* command unless its result is cached; a failed listing is the empty list.
export_begin_environment ==
    /\ pc = "export"
    /\ environment_idx < Len(config.environments)
    /\ environment_idx' = environment_idx + 1
    /\ LET next_environment == config.environments[environment_idx + 1]
       IN  \E found \in _find_all_courses(memo,
                   get_all_courses_kwargs(get_config_for_env(config, next_environment))) :
              /\ memo' = found.memo
              /\ commands' = IF found.ran /\ ~found.kwargs.dry_run
                             THEN commands \cup {"django-admin dump_course_ids"}
                             ELSE commands
              /\ listing_calls' = Append(listing_calls,
                                         [kwargs |-> found.kwargs, ran |-> found.ran,
                                          failed |-> found.failed, courses |-> found.courses])
              /\ courses' = get_org_courses(organization,
                                            get_config_for_env(config, next_environment),
                                            found.courses)
    /\ task_list' = org_tasks
    /\ course_idx' = 0
    /\ task_idx' = 1
    /\ rt_results' = <<>>
    /\ rt_log' = <<>>
    /\ pc' = "run_tasks"
    /\ UNCHANGED <<placeholders, general_config, hash_seed, sel_vars, fn_vars, aux_vars, export_log, organization_idx, results, files,
                   dirs, archive, uploaded, exception, steps, gpg_failed, failures>>
    /\ original_kwargs' = run_tasks_kwargs'

\* run_tasks: one iteration of `for task in task_list`
run_tasks_iteration ==
    /\ pc = "run_tasks"
    /\ task_idx <= Len(task_list)
    /\ LET task == TaskOfClass[task_list[task_idx]]
           kwargs == original_kwargs
       IN  IF ignored(task, kwargs)
           THEN /\ task_idx' = task_idx + 1
                /\ UNCHANGED <<files, dirs, rt_results, rt_log, exception, pc, failures,
                               placeholders, original_kwargs, export_log, commands>>
           ELSE \E outcome \in outcomes(task, kwargs.dry_run) :
                   /\ outcome \notin expected(kwargs.dry_run) => failures < MaxFailures
                   /\ failures' = IF outcome \notin expected(kwargs.dry_run)
                                   THEN failures + 1 ELSE failures
                   /\ rt_log' = Append(rt_log, [cls |-> task.cls, exc |-> outcome.exc,
                                                 wrote |-> outcome.wrote,
                                                 kwargs |-> run_tasks_dicts(task, kwargs).received])
                   /\ original_kwargs' = run_tasks_dicts(task, kwargs).original_kwargs
                   /\ commands' = commands \cup commands_of_outcome(task, outcome)
                   /\ LET r == _run_task(task, kwargs, outcome, files, dirs)
                      IN  /\ files' = r.files
                          /\ export_log' =
                                 Append(export_log,
                                        [environment |-> kwargs.environment,
                                         course |-> IF "course" \in DOMAIN kwargs
                                                    THEN kwargs.course ELSE <<>>,
                                         cls |-> task.cls,
                                         returned |-> r.returned])
                          /\ dirs' = r.dirs
                          /\ placeholders' =
                                 placeholders \cup (((DOMAIN r.files) \ (DOMAIN files))
                                                       \ {filename_of(task, kwargs)})
                          /\ IF r.exc = "None"
                             THEN /\ rt_results' = rt_results \o r.returned
                                  /\ task_idx' = task_idx + 1
                                  /\ UNCHANGED <<exception, pc>>
                             ELSE /\ exception' = r.exc
                                  /\ pc' = "raising"
                                  /\ UNCHANGED <<rt_results, task_idx>>
    /\ UNCHANGED <<general_config, hash_seed, sel_vars, fn_vars, aux_vars, listing_calls, organization_idx, environment_idx,
                   course_idx, courses, task_list, results, memo, archive, uploaded,
                   steps, gpg_failed>>

\* run_tasks returns; export_organization_data extends its results and
\* goes on with the next course, or with the next environment
run_tasks_return ==
    /\ pc = "run_tasks"
    /\ task_idx > Len(task_list)
    /\ results' = results \o rt_results
    /\ IF course_idx < Len(courses)
       THEN /\ course_idx' = course_idx + 1
            /\ task_list' = course_tasks
            /\ task_idx' = 1
            /\ rt_results' = <<>>
            /\ rt_log' = <<>>
            /\ pc' = "run_tasks"
       ELSE /\ pc' = "export"
            /\ UNCHANGED <<course_idx, task_list, task_idx, rt_results, rt_log>>
    /\ UNCHANGED <<placeholders, general_config, hash_seed, sel_vars, fn_vars, aux_vars, commands, export_log, listing_calls, organization_idx, environment_idx,
                   courses, files, dirs, memo, archive, uploaded, exception, steps,
                   gpg_failed, failures>>
    /\ original_kwargs' = IF course_idx < Len(courses) THEN run_tasks_kwargs'
                          ELSE original_kwargs

\* export_organization_data returns its results to main; its locals are gone
export_return ==
    /\ pc = "export"
    /\ environment_idx = Len(config.environments)
    /\ pc' = "encrypt"
    /\ environment_idx' = 0
    /\ course_idx' = 0
    /\ task_idx' = 0
    /\ courses' = <<>>
    /\ task_list' = <<>>
    /\ rt_results' = <<>>
    /\ rt_log' = <<>>
    /\ UNCHANGED <<placeholders, general_config, hash_seed, sel_vars, fn_vars, aux_vars, commands, export_log, original_kwargs, listing_calls, organization_idx, results, files,
                   dirs, memo, archive, uploaded, exception, steps, gpg_failed, failures>>

\* the path of the encrypted copy: '{0}.gpg'.format(filepath)
encrypted_filepath_of(filepath) == Path(filepath.dir, filepath.base \o GPG_SUFFIX)

\* encrypt_files(config, results).  Reading a recipient's key can raise.
\* gpg.encrypt_file reports a failure in its return value, which the code
\* does not look at: the original is removed "even if it was not
\* encrypted".  The recipients' keys work for every file of a call or for none.
encrypt_files ==
    /\ pc = "encrypt"
    /\ steps' = Append(steps, "encrypt")
    /\ \/ /\ exception' = "Exception"
          /\ pc' = "raising"
          /\ UNCHANGED <<files, gpg_failed, failures, commands>>
       \/ LET present == {results[i] : i \in 1..Len(results)} \cap DOMAIN files
              kept == (DOMAIN files) \ present
          IN  \E not_encrypted \in {{}, present} :
                 /\ not_encrypted # {} => ~config.dry_run /\ failures < MaxFailures
                 /\ failures' = IF not_encrypted # {} THEN failures + 1 ELSE failures
                 /\ gpg_failed' = not_encrypted
                 /\ commands' = commands \cup {"gpg --import"}
                                     \cup (IF ~config.dry_run /\ present # {}
                                           THEN {"gpg --encrypt", "rm"} ELSE {})
                 /\ files' = IF config.dry_run THEN files
                             ELSE [q \in kept \cup {encrypted_filepath_of(f) :
                                                       f \in present \ not_encrypted} |->
                                      IF q \in kept THEN files[q] ELSE "encrypted"]
                 /\ pc' = "archive"
                 /\ UNCHANGED exception
    /\ UNCHANGED <<placeholders, general_config, hash_seed, sel_vars, fn_vars, aux_vars, export_log, original_kwargs, listing_calls, organization_idx, environment_idx,
                   course_idx, task_idx, courses, task_list, rt_results, results, dirs,
                   memo, archive, uploaded, rt_log>>

\* the zip file that archive_directory names: root_dir/base_dir.zip
archive_path_of(directory) ==
    Path(SubSeq(directory, 1, Len(directory) - 1), directory[Len(directory)] \o ZIP_SUFFIX)

\* archive_directory(config, destination): without zip on the PATH it raises
\* FatalTaskError; the zip command can fail (CalledProcessError)
archive_directory ==
    /\ pc = "archive"
    /\ steps' = Append(steps, "archive")
    /\ \/ /\ exception' = "FatalTaskError"
          /\ pc' = "raising"
          /\ UNCHANGED <<files, archive, failures, commands>>
       \/ /\ ~config.dry_run
          /\ exception' = "Exception"
          /\ pc' = "raising"
          /\ commands' = commands \cup {"zip"}
          /\ UNCHANGED <<files, archive, failures>>
       \/ /\ archive' = [name |-> archive_path_of(destination),
                         contents |-> IF config.dry_run THEN {}
                                      ELSE {f \in DOMAIN files : IsUnder(f.dir, destination)}]
          /\ files' = IF config.dry_run THEN files
                      ELSE write(files, archive_path_of(destination), "zip")
          /\ commands' = IF config.dry_run THEN commands ELSE commands \cup {"zip"}
          /\ pc' = "upload"
          /\ UNCHANGED <<exception, failures>>
    /\ UNCHANGED <<placeholders, general_config, hash_seed, sel_vars, fn_vars, aux_vars, export_log, original_kwargs, listing_calls, organization_idx, environment_idx,
                   course_idx, task_idx, courses, task_list, rt_results, results, dirs,
                   memo, uploaded, rt_log, gpg_failed>>

\* upload_data(config, archive): the copy to the bucket can fail after its
\* retries (CalledProcessError)
upload_data ==
    /\ pc = "upload"
    /\ steps' = Append(steps, "upload")
    /\ \/ /\ ~config.dry_run
          /\ exception' = "Exception"
          /\ pc' = "raising"
          /\ commands' = commands \cup {"aws s3 cp --acl"}
          /\ UNCHANGED <<uploaded, failures>>
       \/ /\ uploaded' = IF config.dry_run THEN uploaded ELSE Append(uploaded, archive.name)
          /\ commands' = IF config.dry_run THEN commands
                          ELSE commands \cup {"aws s3 cp --acl"}
          /\ pc' = "leave"
          /\ UNCHANGED <<exception, failures>>
    /\ UNCHANGED <<placeholders, general_config, hash_seed, sel_vars, fn_vars, aux_vars, export_log, original_kwargs, listing_calls, organization_idx, environment_idx,
                   course_idx, task_idx, courses, task_list, rt_results, results, files,
                   dirs, memo, archive, rt_log, gpg_failed>>

\* main after the with block: its loop goes on after a normal exit; it
\* handles no exception, so an exception ends the loop and the run
main_after_exit_continues(position) == "main"

main_after_exit(position) == IF position = "leave" THEN "main" ELSE "error"

\* the exit of `with make_org_directory(...)`, normal or by an exception:
\* make_temp_directory removes the temporary directory
make_org_directory_exit ==
    /\ pc \in {"leave", "raising"}
    /\ files' = [q \in {f \in DOMAIN files : ~IsUnder(f.dir, temp_dir_of(organization))} |->
                    files[q]]
    /\ dirs' = {d \in dirs : ~IsUnder(d, temp_dir_of(organization))}
    /\ pc' = main_after_exit(pc)
    /\ UNCHANGED <<placeholders, general_config, hash_seed, sel_vars, fn_vars, aux_vars, commands, export_log, original_kwargs, listing_calls, organization_idx, environment_idx,
                   course_idx, task_idx, courses, task_list, rt_results, results, memo,
                   archive, uploaded, exception, rt_log, steps, gpg_failed, failures>>

Next ==
    \/ main_enter_organization
    \/ export_begin_environment
    \/ run_tasks_iteration
    \/ run_tasks_return
    \/ export_return
    \/ encrypt_files
    \/ archive_directory
    \/ upload_data
    \/ make_org_directory_exit
    \/ main_return

Spec == Init /\ [][Next]_vars

(***************************************************************************)
(* Properties of the task runner and of the pipeline (Spec).               *)
(***************************************************************************)
Last(seq) == seq[Len(seq)]
Range(seq) == {seq[i] : i \in 1..Len(seq)}

\* a run_tasks call is in progress, or was left by an exception
InRunTasks == environment_idx > 0 /\ task_idx > 0

\* the tasks of the current run_tasks call that the loop has reached so far
\* and did not skip, in the order of the task list
Reached ==
    LET upto == IF task_idx > Len(task_list) THEN Len(task_list) ELSE task_idx
        passed == IF pc = "run_tasks" THEN task_idx - 1 ELSE upto
    IN  SelectSeq(SubSeq(task_list, 1, passed),
                  LAMBDA cls : ~ignored(TaskOfClass[cls], run_tasks_kwargs))

\* the output path of the i-th task.run call of the current run_tasks call
OutputOf(i) == filename_of(TaskOfClass[rt_log[i].cls], run_tasks_kwargs)

\* the last task.run call of the current run_tasks call raised FatalTaskError
FatalInTask == rt_log # <<>> /\ Last(rt_log).exc = "FatalTaskError"

\* C1 (failure isolation): in every run_tasks call, whichever tasks fail
\* non-fatally, every task the loop has passed and not skipped was run, in
\* task order, and each run that did not raise FatalTaskError has exactly
\* one entry in the returned list at its position: the output path if the
\* task succeeded, the '.failed' path if it failed.  In particular at the
\* return every task after a failing one has been run.
C1_FailureIsolation ==
    InRunTasks =>
        /\ Len(rt_log) = Len(Reached)
        /\ \A i \in 1..Len(rt_log) : rt_log[i].cls = Reached[i]
        /\ \A i \in 1..Len(rt_log) :
              rt_log[i].exc # "FatalTaskError" =>
                 LET output == OutputOf(i)
                 IN  /\ i <= Len(rt_results)
                     /\ rt_results[i] = IF rt_log[i].exc = "None" THEN output
                                        ELSE failed_filename_of(output)
        /\ pc = "run_tasks" => Len(rt_results) = Len(rt_log)

\* a call of three tasks returns after the second one failed
C1_Witness ==
    /\ pc = "run_tasks"
    /\ task_idx > Len(task_list)
    /\ Len(rt_log) = 3
    /\ rt_log[1].exc = "None"
    /\ rt_log[2].exc = "Exception"
    /\ rt_log[3].exc = "None"
    /\ rt_results = <<OutputOf(1), failed_filename_of(OutputOf(2)), OutputOf(3)>>

\* C2 (fatal abort): when task k of a task list raises FatalTaskError, the
\* error leaves run_tasks (it is the exception that propagates, and the
\* loop stays at k), no task after k is run, and neither an output file nor
\* a placeholder exists for a task after k.
C2_FatalAbort ==
    /\ \A i \in 1..(Len(rt_log) - 1) : rt_log[i].exc # "FatalTaskError"
    /\ FatalInTask =>
          /\ pc \in {"raising", "error"}
          /\ exception = "FatalTaskError"
          /\ task_list[task_idx] = Last(rt_log).cls
          /\ Len(rt_log) = Len(Reached)
          /\ \A j \in (task_idx + 1)..Len(task_list) :
                LET after == filename_of(TaskOfClass[task_list[j]], run_tasks_kwargs)
                IN  /\ ~exists(files, after)
                    /\ ~exists(files, failed_filename_of(after))
                    /\ after \notin Range(rt_results)
                    /\ failed_filename_of(after) \notin Range(rt_results)

\* a fatal error is propagating and the list has tasks after the one that raised
C2_Witness ==
    /\ pc = "raising"
    /\ FatalInTask
    /\ task_idx < Len(task_list)
    /\ Len(rt_log) >= 2

\* C3 (a fatal error is never downgraded): when a task's backend raises
\* FatalTaskError (no aws executable, no success marker), no '.failed' file
\* is written for that task, no path is returned for it, and the error is
\* the one that propagates and ends the run.
C3_FatalNeverDowngraded ==
    FatalInTask =>
        LET output == OutputOf(Len(rt_log))
            failed == failed_filename_of(output)
            returned == Range(rt_results) \cup Range(results)
        IN  /\ ~exists(files, failed)
            /\ failed \notin placeholders
            /\ Len(rt_results) = Len(rt_log) - 1
            /\ output \notin returned
            /\ failed \notin returned
            /\ exception = "FatalTaskError"
            /\ pc \in {"raising", "error"}

\* the run has ended with the fatal error of a task
C3_Witness ==
    /\ pc = "error"
    /\ FatalInTask
    /\ exception = "FatalTaskError"

\* C4 (placeholder): after a task failed non-fatally its output path does
\* not exist, '<output path>.failed' exists and holds the fixed message and
\* is the path returned for the task; and no file exists together with its
\* '.failed' placeholder.
C4_Placeholder ==
    /\ (InRunTasks /\ pc \in {"run_tasks", "raising"}) =>
          \A i \in 1..Len(rt_log) :
             rt_log[i].exc = "Exception" =>
                LET output == OutputOf(i)
                    failed == failed_filename_of(output)
                IN  /\ ~exists(files, output)
                    /\ exists(files, failed)
                    /\ files[failed] = FAILED_MESSAGE
                    /\ rt_results[i] = failed
    /\ \A f \in DOMAIN files : ~exists(files, failed_filename_of(f))

\* a task failed after it had written a part of its output
C4_Witness ==
    /\ pc = "run_tasks"
    /\ \E i \in 1..Len(rt_log) :
          /\ rt_log[i].exc = "Exception"
          /\ rt_log[i].wrote = "partial"
          /\ exists(files, failed_filename_of(OutputOf(i)))

\* the packaging steps of main, in the order of the code
PACKAGING == <<"encrypt", "archive", "upload">>

\* the files of the current organization that the archive must hold for its
\* placeholders: their encrypted copies
EncryptedPlaceholders == {encrypted_filepath_of(f) : f \in placeholders}

C6_NoPackageAfterFatal ==
    FatalInTask =>
        /\ steps = <<>>
        /\ archive = NoArchive
        /\ archive_path_of(destination) \notin Range(uploaded)
        /\ ~exists(files, archive_path_of(destination))
        /\ exception = "FatalTaskError"
        /\ pc \in {"raising", "error"}

\* the second organization ended the run with a fatal error after the first
\* one was uploaded
C6_Witness ==
    /\ pc = "error"
    /\ FatalInTask
    /\ organization_idx = 2
    /\ steps = <<>>
    /\ Len(uploaded) = 1

\* the output path of OrgEmailOptInTask for the current organization in the
\* environment 'edge'
OptInOutputOnEdge ==
    filename_of(TaskOfClass["OrgEmailOptInTask"],
                [work_dir |-> destination, courses |-> <<>>]
                    @@ get_config_for_env(config, EDGE))

\* C7 (restricted environment): in the environment 'edge' OrgEmailOptInTask
\* is never run, whatever the inclusion and exclusion lists select, and
\* nothing exists or is returned at its output path: no output file, no
\* placeholder, no encrypted copy.
C7_EdgeNoOptIn ==
    /\ (InRunTasks /\ environment = EDGE) =>
          \A i \in 1..Len(rt_log) : rt_log[i].cls # "OrgEmailOptInTask"
    /\ organization_idx > 0 =>
          LET output == OptInOutputOnEdge
              failed == failed_filename_of(output)
              paths == {output, failed, encrypted_filepath_of(output),
                        encrypted_filepath_of(failed)}
          IN  /\ paths \cap DOMAIN files = {}
              /\ paths \cap Range(results) = {}
              /\ paths \cap Range(rt_results) = {}
              /\ paths \cap archive.contents = {}

\* on 'edge' the organization tasks were run: OrgEmailOptInTask was
\* selected, and skipped
C7_Witness ==
    /\ pc = "run_tasks"
    /\ environment = EDGE
    /\ course_idx = 0
    /\ task_idx > Len(task_list)
    /\ "OrgEmailOptInTask" \in Range(task_list)
    /\ rt_log = <<>>
    /\ rt_results = <<>>

\* the keys that a task sets in the kwargs it received
TaskSetKeys == {"comma_sep_courses", "all_organizations", "max_tries", "slug"}

\* C18 (context isolation): in every run_tasks call each task that is run
\* receives the keyword arguments that run_tasks was called with, none of
\* the keys that a task before it has set among them, and after every
\* task the dict original_kwargs of run_tasks is as it was at the call.
C18_ContextIsolation ==
    InRunTasks =>
        /\ \A i \in 1..Len(rt_log) :
              /\ rt_log[i].kwargs = run_tasks_kwargs
              /\ (DOMAIN rt_log[i].kwargs) \cap TaskSetKeys = {}
        /\ original_kwargs = run_tasks_kwargs
        /\ (DOMAIN original_kwargs) \cap TaskSetKeys = {}

\* C18 witness: in one run_tasks call a task has set a key in its kwargs
\* (CourseWikiTask.run sets slug), a task after it has run without the
\* key, and original_kwargs is without it.
C18_Witness ==
    /\ pc = "run_tasks"
    /\ Len(rt_log) >= 2
    /\ rt_log[1].cls = "WikiArticleTask"
    /\ "slug" \in DOMAIN task_sets(TaskOfClass[rt_log[1].cls], rt_log[1].kwargs)
    /\ "slug" \notin DOMAIN rt_log[2].kwargs
    /\ "slug" \notin DOMAIN original_kwargs

\* OrgEmailOptInTask has run and set its keys, and run_tasks is about to
\* return with original_kwargs as it was
OptInHasRun ==
    /\ pc = "run_tasks"
    /\ rt_log # <<>>
    /\ Last(rt_log).cls = "OrgEmailOptInTask"
    /\ "max_tries" \in DOMAIN task_sets(TaskOfClass["OrgEmailOptInTask"], Last(rt_log).kwargs)
    /\ "max_tries" \notin DOMAIN original_kwargs

\* C19 (course-listing memoization): over the get_all_courses calls of a
\* run, for all organizations and environments, the listing command is run
\* at most once for each set of listing arguments, and every later call
\* with the same arguments returns the list that the first call returned.
C19_ListingMemoized ==
    \A i \in 1..Len(listing_calls) : \A j \in (i + 1)..Len(listing_calls) :
        listing_calls[i].kwargs = listing_calls[j].kwargs =>
            /\ ~listing_calls[j].ran
            /\ listing_calls[j].courses = listing_calls[i].courses

\* C19 witness: the second organization's calls have been made with the
\* arguments of the first organization's calls, two sets of arguments in
\* all, and the command was run for the first of the calls only
C19_Witness ==
    /\ Len(listing_calls) = 4
    /\ listing_calls[1].kwargs # listing_calls[2].kwargs
    /\ listing_calls[3].kwargs = listing_calls[1].kwargs
    /\ listing_calls[1].ran /\ listing_calls[1].courses # <<>>
    /\ ~listing_calls[3].ran /\ listing_calls[3].courses = listing_calls[1].courses
    /\ ~listing_calls[4].ran

\* the listing command was run for every configured environment and
\* failed each time
AllListingsFailed ==
    /\ organization_idx > 0
    /\ \A e \in Range(config.environments) :
          \E i \in 1..Len(listing_calls) :
             /\ listing_calls[i].kwargs
                    = get_all_courses_kwargs(get_config_for_env(config, e))
             /\ listing_calls[i].ran
             /\ listing_calls[i].failed

\* C20 as stated: when the course listing has failed for every configured
\* environment, the run has ended with FatalTaskError and no task is run
\* with the empty course set.
C20_AsStated ==
    AllListingsFailed =>
        /\ exception = "FatalTaskError"
        /\ pc \in {"raising", "done"}
        /\ rt_log = <<>>

\* the courses of the current organization in environment e, from the
\* listing that was made for e
CoursesIn(e) ==
    get_org_courses(organization, get_config_for_env(config, e),
                    memo[get_all_courses_kwargs(get_config_for_env(config, e))])

\* one call: the organization tasks ts in environment e
OrgCalls(e, ts) ==
    [i \in 1..Len(ts) |-> [environment |-> e, course |-> <<>>, cls |-> ts[i]]]

\* the course tasks ts for each of the courses cs, course after course
CourseCalls(e, cs, ts) ==
    [i \in 1..(Len(cs) * Len(ts)) |->
        [environment |-> e, course |-> cs[((i - 1) \div Len(ts)) + 1],
         cls |-> ts[((i - 1) % Len(ts)) + 1]]]

\* the organization tasks that run_tasks does not skip in environment e
NotIgnoredIn(e, ts) ==
    SelectSeq(ts, LAMBDA cls : ~ignored(TaskOfClass[cls], get_config_for_env(config, e)))

RECURSIVE CallsAsStated(_)
\* the calls of the first n environments: every selected organization task,
\* then every selected course task for each course
CallsAsStated(n) ==
    IF n = 0 THEN <<>>
    ELSE CallsAsStated(n - 1)
            \o OrgCalls(config.environments[n], org_tasks)
            \o CourseCalls(config.environments[n], CoursesIn(config.environments[n]),
                           course_tasks)

RECURSIVE CallsInOrder(_)
\* the same, without the organization tasks that run_tasks skips
CallsInOrder(n) ==
    IF n = 0 THEN <<>>
    ELSE CallsInOrder(n - 1)
            \o OrgCalls(config.environments[n],
                        NotIgnoredIn(config.environments[n], org_tasks))
            \o CourseCalls(config.environments[n], CoursesIn(config.environments[n]),
                           course_tasks)

\* the calls that were made, without what they returned
CallsMade ==
    [i \in 1..Len(export_log) |->
        [environment |-> export_log[i].environment, course |-> export_log[i].course,
         cls |-> export_log[i].cls]]

RECURSIVE Returned(_, _)
\* what the first n calls returned, in the order of the calls
Returned(log, n) ==
    IF n = 0 THEN <<>> ELSE Returned(log, n - 1) \o log[n].returned

IsPrefix(a, b) == Len(a) <= Len(b) /\ SubSeq(b, 1, Len(a)) = a

\* export_organization_data has returned its results to main
ExportReturned == pc = "encrypt"

\* the kwargs of the i-th call of the current export_organization_data call
KwargsOfCall(i) ==
    IF export_log[i].course = <<>>
    THEN [work_dir |-> destination] @@ get_config_for_env(config, export_log[i].environment)
    ELSE [work_dir |-> destination, course |-> export_log[i].course]
            @@ get_config_for_env(config, export_log[i].environment)

\* C21 as stated: when export_organization_data returns, it has run in
\* each environment every selected organization task once, then every
\* selected course task once for each course, and its results hold one
\* path for each of these tasks in this order.
C21_AsStated ==
    ExportReturned =>
        /\ CallsMade = CallsAsStated(Len(config.environments))
        /\ results = Returned(export_log, Len(export_log))
        /\ Len(results) = Len(export_log)

\* C21 amended: the tasks are run in this order, the organization tasks of
\* an environment before the course tasks, the course tasks course after
\* course, each once, except OrgEmailOptInTask in the environment edge,
\* which is not run; the results hold exactly one path for each task that
\* was run, the output path or its '.failed' placeholder, in the order of
\* the runs.
C21_OrchestrationOrder ==
    /\ environment_idx > 0 => IsPrefix(CallsMade, CallsInOrder(environment_idx))
    /\ pc = "run_tasks" => results \o rt_results = Returned(export_log, Len(export_log))
    /\ ExportReturned =>
          /\ CallsMade = CallsInOrder(Len(config.environments))
          /\ results = Returned(export_log, Len(export_log))
          /\ Len(results) = Len(export_log)
          /\ \A i \in 1..Len(results) :
                LET output == filename_of(TaskOfClass[export_log[i].cls], KwargsOfCall(i))
                IN  results[i] \in {output, failed_filename_of(output)}

\* C21 witness: export_organization_data has returned after it ran an
\* organization task and the course tasks of two courses in one
\* environment, one of them leaving a placeholder
C21_Witness ==
    /\ ExportReturned
    /\ \E i \in 1..Len(export_log) : export_log[i].course = <<>>
    /\ \E i, j \in 1..Len(export_log) :
          /\ i < j
          /\ export_log[i].environment = export_log[j].environment
          /\ export_log[i].course # <<>> /\ export_log[j].course # <<>>
          /\ export_log[i].course # export_log[j].course
    /\ \E i \in 1..Len(results) :
          results[i] = failed_filename_of(filename_of(TaskOfClass[export_log[i].cls],
                                                      KwargsOfCall(i)))
    /\ Len(results) = Len(export_log)

\* the organizations after the current one
LaterOrganizations ==
    {general_config.organizations[j] :
        j \in (organization_idx + 1)..Len(general_config.organizations)}

\* C30 (a fatal error ends the run): once FatalTaskError was raised in the
\* export of organization k, main goes to no other organization, no
\* packaging step is called, nothing more is uploaded and what was
\* uploaded for the organizations before k stays; no organization after k
\* has a working directory, an archive or an upload.
C30_FatalEndsRun ==
    [][exception = "FatalTaskError" =>
          /\ organization_idx' = organization_idx
          /\ uploaded' = uploaded
          /\ steps' = steps
          /\ archive' = archive
          /\ export_log' = export_log
          /\ listing_calls' = listing_calls
          /\ exception' = "FatalTaskError"
          /\ pc' = "error"
          /\ \A later \in LaterOrganizations :
                /\ org_dir_of(later) \notin dirs'
                /\ archive_path_of(org_dir_of(later)) \notin Range(uploaded')
                /\ \A f \in DOMAIN files' : ~IsUnder(f.dir, temp_dir_of(later))]_vars

\* C30 witness: the run has ended with the fatal error of a task of the
\* first organization, and the second organization was not begun
C30_Witness ==
    /\ pc = "error"
    /\ exception = "FatalTaskError"
    /\ FatalInTask
    /\ organization_idx = 1
    /\ LaterOrganizations # {}
    /\ uploaded = <<>>
    /\ \A later \in LaterOrganizations : org_dir_of(later) \notin dirs

(***************************************************************************)
(* Dry run.                                                                *)
(***************************************************************************)
\* the commands that run SQL, mongoexport, django-admin, the S3 check and
\* copy, the encryption, the removal, zip and the upload
Executed ==
    {"mysql", "mongoexport", "django-admin", "django-admin dump_course_ids",
     "aws s3api head-object", "aws s3 cp", "gpg --encrypt", "rm", "zip", "aws s3 cp --acl"}

ListingRan == \E i \in 1..Len(listing_calls) : listing_calls[i].ran

\* every task that was called returned a path, unless it ended the run
PathsReturned ==
    \A i \in 1..Len(export_log) :
        Len(export_log[i].returned) = 1 \/ exception = "FatalTaskError"

NoSuchTask == <<"N","o","S","u","c","h","T","a","s","k">>

NamePool ==
    LET a == TaskByCls("OrgEmailOptInTask").name__
        b == TaskByCls("UserIDMapTask").name__
    IN  {a, lower(a), upper(b), NoSuchTask}

SeqsUpTo(S, n) == UNION {[1..k -> S] : k \in 0..n}

SelectInit ==
    /\ general_config = [organizations |-> <<OX>>, environments |-> <<PROD, EDGE>>,
                         dry_run |-> TRUE, tasks |-> SubSeq(TaskPool, 1, MaxTasks),
                         exclude_task |-> <<>>, courses |-> <<>>]
    /\ MainIdle
    /\ FilenameIdle
    /\ AuxIdle
    /\ hash_seed \in 0..MaxHashSeed
    /\ sel_pc = "call"
    /\ sel_task_cls \in TaskClasses
    /\ sel_tasks_from_options \in SeqsUpTo(NamePool, MaxIncluded)
    /\ sel_excluded_tasks \in SeqsUpTo(NamePool, MaxExcluded)
    /\ sel_result = <<>>

Select ==
    /\ sel_pc = "call"
    /\ sel_result' = _get_selected_tasks(sel_task_cls, sel_tasks_from_options,
                                         sel_excluded_tasks, hash_seed)
    /\ sel_pc' = "returned"
    /\ UNCHANGED <<sel_task_cls, sel_tasks_from_options, sel_excluded_tasks, hash_seed,
                   main_vars, fn_vars, aux_vars>>

SelectNext == Select

SpecSelect == SelectInit /\ [][SelectNext]_vars

(***************************************************************************)
(* Properties of task selection (SpecSelect).                              *)
(***************************************************************************)
\* the classes of a list of tasks, as a set of class names
ClassesOf(tasks) == {tasks[i].cls : i \in 1..Len(tasks)}

\* the place of each class in DEFAULT_TASKS
CatalogIndex ==
    [c \in ClassNames |-> CHOOSE i \in 1..Len(DEFAULT_TASKS) : DEFAULT_TASKS[i].cls = c]

\* the catalog classes of each scope
ScopeTasks ==
    [task_cls \in TaskClasses |-> {c \in ClassNames : issubclass(TaskOfClass[c], task_cls)}]

\* the name of each class in lower case
LowerName == [c \in ClassNames |-> lower(TaskOfClass[c].name__)]

\* the class's name is one of the names, case-insensitively
Matches(c, names) == LowerName[c] \in {lower(names[i]) : i \in 1..Len(names)}

LowerAll(names) == List([i \in 1..Len(names) |-> lower(names[i])])

Reverse(seq) == List([i \in 1..Len(seq) |-> seq[Len(seq) + 1 - i]])

NoDuplicates(tasks) == \A i, j \in 1..Len(tasks) : tasks[i].cls = tasks[j].cls => i = j

InDeclarationOrder(tasks) ==
    \A i, j \in 1..Len(tasks) :
       i < j => CatalogIndex[tasks[i].cls] < CatalogIndex[tasks[j].cls]

\* C8: a task whose name matches an excluded name case-insensitively is
\* never in the result of _get_selected_tasks, whether or not the same name
\* is also in the inclusion list.
C8_ExclusionPrecedence ==
    sel_pc = "returned" =>
        \A i \in 1..Len(sel_result) : ~Matches(sel_result[i].cls, sel_excluded_tasks)

\* C8 witness: a call has returned in which a catalog task of the scope is
\* named by the inclusion list and, in another spelling, by the exclusion list.
C8_Witness ==
    /\ sel_pc = "returned"
    /\ \E c \in ScopeTasks[sel_task_cls] :
          \E i \in 1..Len(sel_tasks_from_options), j \in 1..Len(sel_excluded_tasks) :
             /\ LowerName[c] = lower(sel_tasks_from_options[i])
             /\ LowerName[c] = lower(sel_excluded_tasks[j])
             /\ sel_tasks_from_options[i] # sel_excluded_tasks[j]

\* C9 as stated: with a non-empty inclusion list only catalog tasks of the
\* scope named by it (case-insensitively) are returned, the result is the
\* same for the lower-cased list, and with an empty inclusion list every
\* catalog task of the scope is returned.
C9_AsStated ==
    sel_pc = "returned" =>
        /\ ClassesOf(sel_result) \subseteq ScopeTasks[sel_task_cls]
        /\ sel_tasks_from_options # <<>> =>
              \A i \in 1..Len(sel_result) :
                 Matches(sel_result[i].cls, sel_tasks_from_options)
        /\ sel_result = _get_selected_tasks(sel_task_cls, LowerAll(sel_tasks_from_options),
                                            sel_excluded_tasks, hash_seed)
        /\ sel_tasks_from_options = <<>> => ClassesOf(sel_result) = ScopeTasks[sel_task_cls]

\* C9 amended: as C9, except that with an empty inclusion list every
\* catalog task of the scope that is not excluded is returned; and with a
\* non-empty list, every task of the scope that is named and not excluded.
C9_InclusionFilter ==
    sel_pc = "returned" =>
        /\ ClassesOf(sel_result) \subseteq ScopeTasks[sel_task_cls]
        /\ sel_tasks_from_options # <<>> =>
              ClassesOf(sel_result) = {c \in ScopeTasks[sel_task_cls] :
                                         /\ Matches(c, sel_tasks_from_options)
                                         /\ ~Matches(c, sel_excluded_tasks)}
        /\ sel_result = _get_selected_tasks(sel_task_cls, LowerAll(sel_tasks_from_options),
                                            sel_excluded_tasks, hash_seed)
        /\ sel_tasks_from_options = <<>> =>
              ClassesOf(sel_result) = {c \in ScopeTasks[sel_task_cls] :
                                         ~Matches(c, sel_excluded_tasks)}

\* C9 witness: a call has returned a task that the inclusion list names in
\* a spelling with capitals, next to a name that matches no task.
C9_Witness ==
    /\ sel_pc = "returned"
    /\ \E i, j \in 1..Len(sel_tasks_from_options) :
          /\ sel_tasks_from_options[i] # lower(sel_tasks_from_options[i])
          /\ \E k \in 1..Len(sel_result) :
                LowerName[sel_result[k].cls] = lower(sel_tasks_from_options[i])
          /\ \A c \in ClassNames : ~Matches(c, <<sel_tasks_from_options[j]>>)

\* C10 as stated: the result lists the surviving tasks in the order they
\* are declared in DEFAULT_TASKS.
C10_AsStated ==
    sel_pc = "returned" => InDeclarationOrder(sel_result)

\* C10 amended: the result holds each surviving task exactly once, and which
\* tasks it holds does not depend on the order in which the names are given;
\* the order of the result is the iteration order of a dict.
C10_SelectionIsASet ==
    sel_pc = "returned" =>
        /\ NoDuplicates(sel_result)
        /\ ClassesOf(sel_result) =
              {c \in ScopeTasks[sel_task_cls] :
                 /\ sel_tasks_from_options = <<>> \/ Matches(c, sel_tasks_from_options)
                 /\ ~Matches(c, sel_excluded_tasks)}
        /\ ClassesOf(_get_selected_tasks(sel_task_cls, Reverse(sel_tasks_from_options),
                                         Reverse(sel_excluded_tasks), hash_seed))
              = ClassesOf(sel_result)

\* C10 witness: a call has returned two or more tasks, named twice or in an
\* order other than the declaration order.
C10_Witness ==
    /\ sel_pc = "returned"
    /\ Len(sel_result) >= 2
    /\ Len(sel_tasks_from_options) >= 2
    /\ ~InDeclarationOrder(sel_result)

(***************************************************************************)
(* SpecFilename: two calls of task.get_filename, the one after the        *)
(* other, into the working directory of one organization.                  *)
(***************************************************************************)
\* os.path.dirname of a directory
dirname(d) == SubSeq(d, 1, Len(d) - 1)

\* os.mkdir(d): the exception it raises, "None" when it makes the directory
mkdir_raises(ds, d) ==
    IF d \in ds THEN "FileExistsError"
    ELSE IF dirname(d) \notin ds THEN "FileNotFoundError"
    ELSE "None"

\* FilenameMixin.ensure_filename_directory_exists: the exception it raises
ensure_filename_directory_exists_unguarded(task, ds, filename) ==
    IF task.cls = "ForumsTask" THEN "None" ELSE mkdir_raises(ds, filename.dir)

ensure_filename_directory_exists_raises(task, ds, filename) ==
    IF task.cls = "ForumsTask" \/ filename.dir \in ds THEN "None"
    ELSE mkdir_raises(ds, filename.dir)

\* whether get_filename raises InvalidKeyError: get_course_name parses the
\* course id of a course task and handles no exception
get_filename_raises(task, kwargs) ==
    task.scope = "CourseTask" /\ ~CourseKey_from_string(kwargs.course).ok

NoPath == Path(<<>>, "")

\* the return value of FilenameMixin.ensure_filename_directory_exists and
\* get_filename for a filename that was computed
get_filename_return(task, ds, filename, exc) ==
    IF exc # "None" THEN [exc |-> exc, filename |-> NoPath, dirs |-> ds]
    ELSE [exc |-> "None", filename |-> filename,
          dirs |-> ensure_filename_directory_exists(task, ds, filename)]

\* task.get_filename with the directories ds: the exception it
\* raises, the path it returns, the directories it leaves
get_filename(task, kwargs, ds) ==
    IF get_filename_raises(task, kwargs)
    THEN [exc |-> "InvalidKeyError", filename |-> NoPath, dirs |-> ds]
    ELSE get_filename_return(task, ds, filename_of(task, kwargs),
             ensure_filename_directory_exists_raises(task, ds, filename_of(task, kwargs)))

\* 'a' * n, and the same with a 'b' at position k
NameOfLength(n) == List([i \in 1..n |-> "a"])
NameWithB(n, k) == List([i \in 1..n |-> IF i = k THEN "b" ELSE "a"])

\* course ids that differ only where the filename collapses them, a course
\* id with a character that is no letter, digit, '_', '.' or '-', a ccx key,
\* and a line that is no course key
COURSE_E_ACUTE == COURSE_V1 \o <<"o","x","+","C",E_ACUTE,"+","2","4">>
COURSE_U_UMLAUT == COURSE_V1 \o <<"o","x","+","C",U_UMLAUT,"+","2","4">>
COURSE_DASH_1 == COURSE_V1 \o <<"o","x","+","a","-","b","+","c">>
COURSE_DASH_2 == COURSE_V1 \o <<"o","x","+","a","+","b","-","c">>
COURSE_TILDE == COURSE_V1 \o <<"o","x","+","C","~","1","+","2","4">>
COURSE_CCX == CCX_V1 \o <<"o","x","+","C","1","+","2","4","+">> \o CCX_AT \o <<"7">>
COURSE_BAD == <<"n","o","t"," ","a"," ","k","e","y">>

ORG_E_ACUTE == <<"o",E_ACUTE>>
ORG_U_UMLAUT == <<"o",U_UMLAUT>>
ORG_PAD == <<"o",PAD>>

FilenameCourses ==
    {COURSE_1, COURSE_E_ACUTE, COURSE_U_UMLAUT, COURSE_DASH_1, COURSE_DASH_2,
     COURSE_TILDE, COURSE_CCX}
FilenameCourseTasks == {"UserIDMapTask", "AssessmentRubricTask", "ForumsTask"}
FilenameOrganizations == {OX, ORG_E_ACUTE, ORG_U_UMLAUT, ORG_PAD}

\* the names of the tests: of the lengths of
\* test_course_task_get_filename_on_multiple_sizes, and the long names that
\* differ in one character of test_course_task_get_filename_on_similar_names
FilenameLongNames ==
    LET ext == Len(TaskByCls("UserIDMapTask").EXT)
    IN  {NameOfLength(1), NameOfLength(MAX_FILENAME_LENGTH - 1 - ext),
         NameOfLength(MAX_FILENAME_LENGTH + 1 - 1 - ext),
         NameOfLength(LONG_NAME_LENGTH - 1 - ext),
         NameOfLength(LONG_NAME_LENGTH), NameWithB(LONG_NAME_LENGTH, 1),
         NameWithB(LONG_NAME_LENGTH, LONG_NAME_LENGTH \div 2),
         NameWithB(LONG_NAME_LENGTH, LONG_NAME_LENGTH)}

\* the keyword arguments of a call in the working directory of OX
FilenameKwargs(organization_, course, name) ==
    [work_dir |-> org_dir_of(OX), organization |-> organization_, course |-> course,
     name |-> name, environment |-> PROD]

FilenameCalls ==
    {[cls |-> t, kwargs |-> FilenameKwargs(OX, c, PROD)] :
        t \in FilenameCourseTasks, c \in FilenameCourses}
    \cup {[cls |-> "UserIDMapTask", kwargs |-> FilenameKwargs(OX, COURSE_BAD, PROD)]}
    \cup {[cls |-> "OrgEmailOptInTask", kwargs |-> FilenameKwargs(o, COURSE_1, PROD)] :
            o \in FilenameOrganizations}
    \cup {[cls |-> "UserIDMapTask", kwargs |-> FilenameKwargs(OX, COURSE_1, n)] :
            n \in FilenameLongNames}

FilenameInit ==
    /\ general_config = [organizations |-> <<OX>>, environments |-> <<PROD, EDGE>>,
                         dry_run |-> TRUE, tasks |-> SubSeq(TaskPool, 1, MaxTasks),
                         exclude_task |-> <<>>, courses |-> <<>>]
    /\ hash_seed = 0
    /\ MainIdle
    /\ SelectIdle
    /\ AuxIdle
    /\ fn_pc = 0
    /\ fn_calls \in {<<a, b>> : a \in FilenameCalls, b \in FilenameCalls}
    /\ fn_returned = <<>>
    /\ fn_dirs = <<{temp_dir_of(OX), org_dir_of(OX)}>>

\* the next call of get_filename
get_filename_call ==
    /\ fn_pc < Len(fn_calls)
    /\ LET call == fn_calls[fn_pc + 1]
           r == get_filename(TaskOfClass[call.cls], call.kwargs, fn_dirs[Len(fn_dirs)])
       IN  /\ fn_returned' = Append(fn_returned, [exc |-> r.exc, filename |-> r.filename])
           /\ fn_dirs' = Append(fn_dirs, r.dirs)
    /\ fn_pc' = fn_pc + 1
    /\ UNCHANGED <<fn_calls, hash_seed, main_vars, sel_vars, aux_vars>>

FilenameNext == get_filename_call

SpecFilename == FilenameInit /\ [][FilenameNext]_vars

(***************************************************************************)
(* Properties of get_filename (SpecFilename).                              *)
(***************************************************************************)
\* both calls were made
BothCalled == fn_pc = 2

\* both calls returned a path
BothReturned == BothCalled /\ fn_returned[1].exc = "None" /\ fn_returned[2].exc = "None"

\* a call of a course task
IsCourseCall(call) == TaskOfClass[call.cls].scope = "CourseTask"

\* the length of the basename without '.' and the extension
StemLength(call) ==
    Len(get_filename_template(TaskOfClass[call.cls], call.kwargs))
        - 1 - Len(TaskOfClass[call.cls].EXT)

\* the positions at which two names of equal length differ
DifferAt(a, b) == {i \in 1..Len(a) : a[i] # b[i]}

\* C11 as stated: two calls into one working directory for different
\* (course, task) pairs return different filenames, also when the course
\* ids differ only in characters that the substitution or the joining of
\* the filename collapses.
C11_AsStated ==
    (/\ BothReturned
     /\ IsCourseCall(fn_calls[1]) /\ IsCourseCall(fn_calls[2])
     /\ fn_calls[1].kwargs.name = fn_calls[2].kwargs.name
     /\ <<fn_calls[1].cls, fn_calls[1].kwargs.course>>
            # <<fn_calls[2].cls, fn_calls[2].kwargs.course>>)
    => fn_returned[1].filename # fn_returned[2].filename

C13_AsStated ==
    \A i \in 1..fn_pc :
        (/\ fn_returned[i].exc = "None"
         /\ IsCourseCall(fn_calls[i])
         /\ Len(fn_calls[i].kwargs.name) <= LONG_NAME_LENGTH)
        => StemLength(fn_calls[i]) <= MAX_STEM_LENGTH

\* the characters that are safe in a filename: letters, digits, '_', '.', '-'
SafeChars == Letters \cup Digits \cup {"_", ".", "-"}

\* the scope identity of a call before the substitution: the organization,
\* or the course name that get_course_name builds from the course key
RawEntityName(call) ==
    IF IsCourseCall(call) THEN get_course_name(call.kwargs.course)
    ELSE call.kwargs.organization

\* C14 as stated: in the filename of every call, each character of the
\* scope identity that is no letter, digit, '_', '.' or '-' is replaced by
\* one '_', every other character is kept, and none is dropped.
C14_AsStated ==
    \A i \in 1..fn_pc :
        fn_returned[i].exc = "None" =>
            LET raw == RawEntityName(fn_calls[i])
                entity == entity_name(TaskOfClass[fn_calls[i].cls], fn_calls[i].kwargs)
            IN  /\ Len(entity) = Len(raw)
                /\ \A k \in 1..Len(raw) :
                      entity[k] = IF raw[k] \in SafeChars THEN raw[k] ELSE "_"

\* the parts of the course name of a call, each after the substitution
CourseParts(call) ==
    LET key == CourseKey_from_string(call.kwargs.course)
        parts == IF key.has_ccx
                 THEN <<key.org, key.course, key.run, <<"c","c","x">>, key.ccx>>
                 ELSE <<key.org, key.course, key.run>>
    IN  [k \in 1..Len(parts) |-> _substitute_non_ascii_chars(parts[k])]

\* {org}-{course}-{run}[-ccx-{ccx}] or {organization}, non-ASCII characters
\* replaced
EntityShape(call) ==
    IF IsCourseCall(call) THEN Join(<<"-">>, CourseParts(call))
    ELSE _substitute_non_ascii_chars(call.kwargs.organization)

\* {entity}-{NAME}-{name}.{EXT}
TemplateShape(call) ==
    Str(Join(<<"-">>, <<EntityShape(call), TaskOfClass[call.cls].NAME, call.kwargs.name>>)
            \o <<".">> \o TaskOfClass[call.cls].EXT)

\* work_dir/[SUBDIR/]{entity}-{NAME}-{name}.{EXT}
PathShape(call) ==
    IF IsCourseCall(call) /\ TaskOfClass[call.cls].SUBDIR # "NotSet"
    THEN Path(Append(call.kwargs.work_dir, TaskOfClass[call.cls].SUBDIR), TemplateShape(call))
    ELSE Path(call.kwargs.work_dir, TemplateShape(call))

\* work_dir/{entity}-{environment}.{EXT}
ForumsShape(call) ==
    Path(call.kwargs.work_dir,
         Str(Join(<<"-">>, <<EntityShape(call), call.kwargs.environment>>)
                 \o <<".">> \o TaskOfClass[call.cls].EXT))

IsUnparseableCall(call) ==
    IsCourseCall(call) /\ ~CourseKey_from_string(call.kwargs.course).ok

\* C16 as stated: get_filename of a course task for a course id that
\* cannot be parsed raises nothing and returns a path whose basename is
\* built from the raw identifier, so that the task can run or leave its
\* '.failed' placeholder and the tasks after it still run.
C16_AsStated ==
    \A i \in 1..fn_pc :
        IsUnparseableCall(fn_calls[i]) =>
            /\ fn_returned[i].exc = "None"
            /\ fn_returned[i].filename =
                   Path(fn_calls[i].kwargs.work_dir,
                        Str(Join(<<"-">>, <<_substitute_non_ascii_chars(fn_calls[i].kwargs.course),
                                           TaskOfClass[fn_calls[i].cls].NAME,
                                           fn_calls[i].kwargs.name>>)
                                \o <<".">> \o TaskOfClass[fn_calls[i].cls].EXT))

\* the second call is for the path that the first call returned
SamePathTwice ==
    /\ BothCalled
    /\ fn_returned[1].exc = "None"
    /\ ~IsUnparseableCall(fn_calls[2])
    /\ filename_of(TaskOfClass[fn_calls[2].cls], fn_calls[2].kwargs) = fn_returned[1].filename

\* C17: a second call of get_filename for the path of the first call
\* raises nothing, returns that path and leaves the directories as the
\* first call left them.
C17_IdempotentEnsure ==
    SamePathTwice =>
        /\ fn_returned[2].exc = "None"
        /\ fn_returned[2].filename = fn_returned[1].filename
        /\ fn_dirs[3] = fn_dirs[2]

\* the first call made the SUBDIR of its task, the second call was for
\* the same path and found the directory there
C17_Witness ==
    /\ SamePathTwice
    /\ fn_returned[1].filename.dir \notin fn_dirs[1]
    /\ fn_returned[1].filename.dir \in fn_dirs[2]
    /\ fn_returned[2].exc = "None"
    /\ fn_dirs[3] = fn_dirs[2]

(***************************************************************************)
(* SpecCourses: one call of get_org_courses for the organization ox, on a  *)
(* configured course list and a listing drawn from a pool of course ids.   *)
(***************************************************************************)
\* whether get_org_courses raises InvalidKeyError: filter_courses parses
\* every course id it is given and handles no exception
get_org_courses_raises(kwargs, all_courses) ==
    LET configured == Range(kwargs.courses)
        listed == Range(all_courses)
        selected == IF configured # {} /\ listed # {} THEN configured \cap listed
                    ELSE IF listed # {} THEN listed
                    ELSE configured
    IN  \E course \in selected : ~CourseKey_from_string(course).ok

\* get_org_courses: the exception it raises and the list it returns
get_org_courses_call(kwargs, all_courses) ==
    IF get_org_courses_raises(kwargs, all_courses)
    THEN [exc |-> "InvalidKeyError", courses |-> <<>>]
    ELSE [exc |-> "None",
          courses |-> get_org_courses(kwargs.organization, kwargs, all_courses)]

\* course ids of ox, of OX, of oy, of another organization in the old
\* format, and a line that is no course id
COURSE_OLD == <<"o","z","/","C","1","/","2","4">>
CoursePool == {COURSE_1, COURSE_2, COURSE_3, COURSE_OLD, COURSE_BAD}

OtherNames == {<<>>, <<upper(OY)>>}

CoursesInit ==
    /\ general_config = [organizations |-> <<OX>>, environments |-> <<PROD, EDGE>>,
                         dry_run |-> TRUE, tasks |-> SubSeq(TaskPool, 1, MaxTasks),
                         exclude_task |-> <<>>, courses |-> <<>>]
    /\ hash_seed = 0
    /\ MainIdle
    /\ SelectIdle
    /\ FilenameIdle
    /\ ShellIdle
    /\ MetricsIdle
    /\ SingleOrgIdle
    /\ CourseExportIdle
    /\ gc_pc = "call"
    /\ gc_kwargs \in {[organization |-> OX, courses |-> c, other_names |-> o] :
                         c \in SeqsUpTo(CoursePool, MaxConfigured), o \in OtherNames}
    /\ gc_all_courses \in SeqsUpTo(CoursePool, MaxListed)
    /\ gc_result = <<>>

get_org_courses_step ==
    /\ gc_pc = "call"
    /\ gc_result' = get_org_courses_call(gc_kwargs, gc_all_courses)
    /\ gc_pc' = "returned"
    /\ UNCHANGED <<gc_kwargs, gc_all_courses, hash_seed, main_vars, sel_vars, fn_vars,
                   sh_vars, mt_vars, so_vars, ce_vars>>

CoursesNext == get_org_courses_step

SpecCourses == CoursesInit /\ [][CoursesNext]_vars

(***************************************************************************)
(* Properties of get_org_courses (SpecCourses).                            *)
(***************************************************************************)
\* the call has returned a list
CoursesReturned == gc_pc = "returned" /\ gc_result.exc = "None"

\* the names of the organization, in lower case
NamesOfOrganization ==
    {lower(gc_kwargs.organization)}
        \cup {lower(gc_kwargs.other_names[i]) : i \in 1..Len(gc_kwargs.other_names)}

\* the course belongs to the organization
OfOrganization(course) == lower(CourseKey_from_string(course).org) \in NamesOfOrganization

\* ascending without a repetition
StrictlySorted(seq) == \A i \in 1..(Len(seq) - 1) : StrLess(seq[i], seq[i + 1], 1)

\* C27 as stated: get_org_courses returns a sorted list without duplicates
\* of courses of the organization or of one of its other names, whatever
\* the case; with a configured course list, the configured courses that
\* are in the listing; without one, the listed courses of the organization.
C27_AsStated ==
    CoursesReturned =>
        /\ StrictlySorted(gc_result.courses)
        /\ \A course \in Range(gc_result.courses) : OfOrganization(course)
        /\ gc_kwargs.courses # <<>> =>
              Range(gc_result.courses)
                  = {c \in Range(gc_kwargs.courses) \cap Range(gc_all_courses) :
                        OfOrganization(c)}
        /\ gc_kwargs.courses = <<>> =>
              Range(gc_result.courses)
                  = {c \in Range(gc_all_courses) : OfOrganization(c)}

\* C27 amended: the same, but with an empty listing (also a failed one) the
\* configured courses of the organization are returned although they are
\* in no listing.
C27_OrgCourses ==
    CoursesReturned =>
        /\ StrictlySorted(gc_result.courses)
        /\ \A course \in Range(gc_result.courses) : OfOrganization(course)
        /\ (gc_kwargs.courses # <<>> /\ gc_all_courses # <<>>) =>
              Range(gc_result.courses)
                  = {c \in Range(gc_kwargs.courses) \cap Range(gc_all_courses) :
                        OfOrganization(c)}
        /\ (gc_kwargs.courses # <<>> /\ gc_all_courses = <<>>) =>
              Range(gc_result.courses)
                  = {c \in Range(gc_kwargs.courses) : OfOrganization(c)}
        /\ gc_kwargs.courses = <<>> =>
              Range(gc_result.courses)
                  = {c \in Range(gc_all_courses) : OfOrganization(c)}

\* C27 witness: two configured courses, both listed, the listing not in
\* order, one course of OX in capitals and one of the other name; both
\* are returned, in order
C27_Witness ==
    /\ CoursesReturned
    /\ gc_kwargs.courses = <<COURSE_3, COURSE_2>>
    /\ gc_all_courses = <<COURSE_3, COURSE_2>>
    /\ gc_kwargs.other_names # <<>>
    /\ Len(gc_result.courses) = 2
    /\ StrictlySorted(gc_result.courses)

(***************************************************************************)
(* SpecShell: one run of an operation that calls execute_shell with a      *)
(* retry ceiling: CopyS3FileTask.run, OrgEmailOptInTask.run, upload_data.  *)
(***************************************************************************)
MAX_TRIES_FOR_MARKER_FILE_CHECK == 5
MAX_TRIES_FOR_COPY_FILE_FROM_S3 == 5
MAX_TRIES_FOR_DATA_UPLOAD == 5

\* util.execute_shell: how often it tries the command before it raises
\* CalledProcessError
execute_shell_max_tries(kwargs) ==
    IF "max_tries" \in DOMAIN kwargs THEN kwargs.max_tries ELSE 1

\* local_kwargs = dict(**kwargs); local_kwargs['max_tries'] = max_tries
local_kwargs_of(kwargs, max_tries) == [max_tries |-> max_tries] @@ kwargs

\* CopyS3FileTask.run: the kwargs of the call that looks for the source file
CopyS3FileTask_source_kwargs_leaked(kwargs) ==
    local_kwargs_of(kwargs, MAX_TRIES_FOR_MARKER_FILE_CHECK)

CopyS3FileTask_source_kwargs(kwargs) == kwargs

\* CopyS3FileTask.run: the exception it raises after a call that ended
\* with the given status
CopyS3FileTask_raises_on_source(command, status) ==
    IF status # "failed" THEN "None"
    ELSE IF command = "marker" THEN "FatalTaskError"
    ELSE "CalledProcessError"

CopyS3FileTask_raises(command, status) ==
    IF status # "failed" THEN "None"
    ELSE IF command = "marker" THEN "FatalTaskError"
    ELSE IF command = "source" THEN "None"
    ELSE "CalledProcessError"

\* an execute_shell call that has begun
ShellCall(command, kwargs) ==
    [command |-> command, kwargs |-> kwargs, tries |-> 0, status |-> "running"]

\* the kwargs that the operations are called with: with and without a
\* max_tries of the configuration
ShellKwargs ==
    LET base == [organization |-> OX, courses |-> <<COURSE_1, COURSE_2>>,
                 environment |-> PROD, pipeline_bucket |-> "pipeline",
                 external_prefix |-> "exports"]
    IN  {base, [max_tries |-> 2] @@ base}

ShellOperations == {"CopyS3FileTask.run", "OrgEmailOptInTask.run", "upload_data"}

ShellInit ==
    /\ general_config = [organizations |-> <<OX>>, environments |-> <<PROD, EDGE>>,
                         dry_run |-> TRUE, tasks |-> SubSeq(TaskPool, 1, MaxTasks),
                         exclude_task |-> <<>>, courses |-> <<>>]
    /\ hash_seed = 0
    /\ MainIdle
    /\ SelectIdle
    /\ FilenameIdle
    /\ CoursesIdle
    /\ MetricsIdle
    /\ SingleOrgIdle
    /\ CourseExportIdle
    /\ sh_op \in ShellOperations
    /\ sh_pc = "start"
    /\ sh_world \in {[dry_run |-> d, aws |-> a, kwargs |-> k] :
                        d \in BOOLEAN, a \in BOOLEAN, k \in ShellKwargs}
    /\ sh_kwargs = sh_world.kwargs
    /\ sh_calls = <<>>
    /\ sh_exc = "None"
    /\ sh_wrote = FALSE

\* the last execute_shell call
LastCall == sh_calls[Len(sh_calls)]

\* CopyS3FileTask.run up to its first execute_shell call
CopyS3FileTask_run_begin ==
    /\ sh_op = "CopyS3FileTask.run"
    /\ sh_pc = "start"
    /\ IF ~sh_world.aws
       THEN /\ sh_exc' = "FatalTaskError"
            /\ sh_pc' = "done"
            /\ UNCHANGED sh_calls
       ELSE IF sh_world.dry_run
       THEN /\ sh_pc' = "done"
            /\ UNCHANGED <<sh_calls, sh_exc>>
       ELSE /\ sh_calls' = <<ShellCall("marker",
                                local_kwargs_of(sh_kwargs, MAX_TRIES_FOR_MARKER_FILE_CHECK))>>
            /\ sh_pc' = "marker"
            /\ UNCHANGED sh_exc
    /\ UNCHANGED <<sh_op, sh_world, sh_kwargs, sh_wrote, hash_seed, main_vars, sel_vars,
                   fn_vars, gc_vars, mt_vars, so_vars, ce_vars>>

\* execute_shell: one try of the command; it fails or it succeeds
execute_shell_try ==
    /\ sh_calls # <<>>
    /\ LastCall.status = "running"
    /\ \E succeeds \in BOOLEAN :
          sh_calls' =
              [sh_calls EXCEPT ![Len(sh_calls)] =
                  [@ EXCEPT !.tries = @ + 1,
                            !.status =
                                IF succeeds THEN "ok"
                                ELSE IF LastCall.tries + 1
                                           >= execute_shell_max_tries(LastCall.kwargs)
                                THEN "failed"
                                ELSE "running"]]
    /\ UNCHANGED <<sh_op, sh_pc, sh_world, sh_kwargs, sh_exc, sh_wrote, hash_seed,
                   main_vars, sel_vars, fn_vars, gc_vars, mt_vars, so_vars, ce_vars>>

\* CopyS3FileTask.run after the marker, the source or the copy command
CopyS3FileTask_run_continue ==
    /\ sh_op = "CopyS3FileTask.run"
    /\ sh_pc \in {"marker", "source", "copy"}
    /\ LastCall.status # "running"
    /\ sh_exc' = CopyS3FileTask_raises(LastCall.command, LastCall.status)
    /\ IF LastCall.status = "failed"
          \/ CopyS3FileTask_raises(LastCall.command, LastCall.status) # "None"
       THEN /\ sh_pc' = "done"
            /\ UNCHANGED <<sh_calls, sh_wrote>>
       ELSE IF sh_pc = "marker"
       THEN /\ sh_calls' = Append(sh_calls,
                                  ShellCall("source", CopyS3FileTask_source_kwargs(sh_kwargs)))
            /\ sh_pc' = "source"
            /\ UNCHANGED sh_wrote
       ELSE IF sh_pc = "source"
       THEN /\ sh_calls' = Append(sh_calls,
                                  ShellCall("copy",
                                      local_kwargs_of(sh_kwargs,
                                                      MAX_TRIES_FOR_COPY_FILE_FROM_S3)))
            /\ sh_pc' = "copy"
            /\ UNCHANGED sh_wrote
       ELSE /\ sh_wrote' = TRUE
            /\ sh_pc' = "done"
            /\ UNCHANGED sh_calls
    /\ UNCHANGED <<sh_op, sh_world, sh_kwargs, hash_seed, main_vars, sel_vars, fn_vars,
                   gc_vars, mt_vars, so_vars, ce_vars>>

\* OrgEmailOptInTask.run and DjangoAdminTask.run up to execute_shell
OrgEmailOptInTask_run_begin ==
    /\ sh_op = "OrgEmailOptInTask.run"
    /\ sh_pc = "start"
    /\ sh_kwargs' = task_sets(TaskOfClass["OrgEmailOptInTask"], sh_kwargs) @@ sh_kwargs
    /\ IF sh_world.dry_run
       THEN /\ sh_pc' = "done"
            /\ UNCHANGED sh_calls
       ELSE /\ sh_calls' = <<ShellCall("django-admin", sh_kwargs')>>
            /\ sh_pc' = "command"
    /\ UNCHANGED <<sh_op, sh_world, sh_exc, sh_wrote, hash_seed, main_vars, sel_vars,
                   fn_vars, gc_vars, mt_vars, so_vars, ce_vars>>

\* upload_data up to execute_shell
upload_data_begin ==
    /\ sh_op = "upload_data"
    /\ sh_pc = "start"
    /\ IF sh_world.dry_run
       THEN /\ sh_pc' = "done"
            /\ UNCHANGED sh_calls
       ELSE /\ sh_calls' = <<ShellCall("upload", [max_tries |-> MAX_TRIES_FOR_DATA_UPLOAD])>>
            /\ sh_pc' = "command"
    /\ UNCHANGED <<sh_op, sh_world, sh_kwargs, sh_exc, sh_wrote, hash_seed, main_vars,
                   sel_vars, fn_vars, gc_vars, mt_vars, so_vars, ce_vars>>

\* OrgEmailOptInTask.run and upload_data after execute_shell: they handle
\* no exception
command_return ==
    /\ sh_pc = "command"
    /\ LastCall.status # "running"
    /\ sh_exc' = IF LastCall.status = "failed" THEN "CalledProcessError" ELSE "None"
    /\ sh_wrote' = (LastCall.status = "ok" /\ sh_op = "OrgEmailOptInTask.run")
    /\ sh_pc' = "done"
    /\ UNCHANGED <<sh_op, sh_world, sh_kwargs, sh_calls, hash_seed, main_vars, sel_vars,
                   fn_vars, gc_vars, mt_vars, so_vars, ce_vars>>

ShellNext ==
    \/ CopyS3FileTask_run_begin
    \/ execute_shell_try
    \/ CopyS3FileTask_run_continue
    \/ OrgEmailOptInTask_run_begin
    \/ upload_data_begin
    \/ command_return

SpecShell == ShellInit /\ [][ShellNext]_vars

(***************************************************************************)
(* Properties of the operations that call execute_shell (SpecShell).       *)
(***************************************************************************)
\* the i-th call exists, is for the command and ended with the status
CallEnded(i, command, status) ==
    /\ i <= Len(sh_calls)
    /\ sh_calls[i].command = command
    /\ sh_calls[i].status = status

IsCopyRun == sh_op = "CopyS3FileTask.run" /\ ~sh_world.dry_run

\* C22 (remote-copy protocol): in a run of CopyS3FileTask.run that is no
\* dry run, the source check is made only after the marker check has
\* succeeded and the copy only after the source check has succeeded too; a
\* marker that is not found raises FatalTaskError, a source that is not
\* found ends the run without a file and without an error, and a copy that
\* failed after its tries raises an error that is not FatalTaskError.
C22_CopyProtocol ==
    IsCopyRun =>
        /\ \A i \in 1..Len(sh_calls) :
              /\ sh_calls[i].command = "marker" => i = 1
              /\ sh_calls[i].command = "source" => i = 2 /\ CallEnded(1, "marker", "ok")
              /\ sh_calls[i].command = "copy" =>
                    i = 3 /\ CallEnded(1, "marker", "ok") /\ CallEnded(2, "source", "ok")
        /\ sh_pc = "done" /\ sh_world.aws =>
              /\ CallEnded(1, "marker", "failed") =>
                    sh_exc = "FatalTaskError" /\ Len(sh_calls) = 1 /\ ~sh_wrote
              /\ CallEnded(2, "source", "failed") =>
                    sh_exc = "None" /\ Len(sh_calls) = 2 /\ ~sh_wrote
              /\ CallEnded(3, "copy", "failed") =>
                    sh_exc = "CalledProcessError" /\ ~sh_wrote
              /\ CallEnded(3, "copy", "ok") => sh_exc = "None" /\ sh_wrote
              /\ Len(sh_calls) >= 1

\* C22 witness: the run has ended without file and error because the
\* source was not found, after the marker was found at the second try
C22_Witness ==
    /\ IsCopyRun
    /\ sh_pc = "done"
    /\ CallEnded(1, "marker", "ok")
    /\ sh_calls[1].tries = 2
    /\ CallEnded(2, "source", "failed")
    /\ sh_exc = "None"
    /\ ~sh_wrote

\* C23 (bounded retries): no command is tried more often than the max_tries
\* of its call, and a call fails only when its tries are used up; the
\* marker check and the copy are called with max_tries 5 in a dict of
\* their own, the upload with max_tries 5 and nothing else,
\* OrgEmailOptInTask's command with max_tries 3; the source check is called
\* with the kwargs that the task received, which the calls before it
\* left as they were.
C23_BoundedRetries ==
    /\ \A i \in 1..Len(sh_calls) :
          /\ sh_calls[i].tries <= execute_shell_max_tries(sh_calls[i].kwargs)
          /\ sh_calls[i].status = "failed" =>
                sh_calls[i].tries = execute_shell_max_tries(sh_calls[i].kwargs)
          /\ sh_calls[i].command = "marker" =>
                sh_calls[i].kwargs.max_tries = MAX_TRIES_FOR_MARKER_FILE_CHECK
          /\ sh_calls[i].command = "copy" =>
                sh_calls[i].kwargs.max_tries = MAX_TRIES_FOR_COPY_FILE_FROM_S3
          /\ sh_calls[i].command = "upload" =>
                sh_calls[i].kwargs = [max_tries |-> MAX_TRIES_FOR_DATA_UPLOAD]
          /\ sh_calls[i].command = "django-admin" => sh_calls[i].kwargs.max_tries = 3
          /\ sh_calls[i].command = "source" => sh_calls[i].kwargs = sh_world.kwargs
    /\ sh_op = "CopyS3FileTask.run" => sh_kwargs = sh_world.kwargs

\* C23 witness: the copy has failed at its fifth try, after a source check
\* that was called without max_tries and a marker check that was retried
C23_Witness ==
    /\ IsCopyRun
    /\ sh_pc = "done"
    /\ CallEnded(3, "copy", "failed")
    /\ sh_calls[3].tries = MAX_TRIES_FOR_COPY_FILE_FROM_S3
    /\ "max_tries" \notin DOMAIN sh_calls[2].kwargs
    /\ sh_calls[1].tries > 1

(***************************************************************************)
(* SpecMetrics: one task run inside the context manager                    *)
(* metrics.collect_elapsed_time(task, **kwargs).                           *)
(***************************************************************************)
GraphiteKeys == {"graphite_host", "graphite_port", "graphite_prefix"}

\* the arguments of get_graphite_client: the graphite options of kwargs
graphite_kwargs(kwargs) == [k \in (DOMAIN kwargs) \cap GraphiteKeys |-> kwargs[k]]

\* '{organization}.{course}.{task}.elapsed_time'
metric_name(task_name, kwargs) ==
    kwargs.organization \o "."
        \o (IF "course" \in DOMAIN kwargs THEN kwargs.course \o "." ELSE "")
        \o task_name \o ".elapsed_time"

\* collect_elapsed_time after client.send: the exception that leaves it
collect_elapsed_time_send_propagates(send_exc) == send_exc

collect_elapsed_time_send(send_exc) == "None"

\* whether collect_elapsed_time makes a client and sends
collects(kwargs) == "organization" \in DOMAIN kwargs

\* kwargs with and without organization, course and graphite options
MetricsKwargs ==
    {org @@ course @@ graphite @@ [other_option |-> "who-cares"] :
        org \in {<<>>, [organization |-> "edX"], [organization |-> "MITx"]},
        course \in {<<>>, [course |-> "the-course"]},
        graphite \in {<<>>, [graphite_host |-> "the-host", graphite_port |-> "the-port",
                             graphite_prefix |-> "the-prefix"]}}

\* what the run of the task does
MetricsRuns ==
    {[exc |-> "None", result |-> "the-result"],
     [exc |-> "Exception", result |-> "nothing"],
     [exc |-> "FatalTaskError", result |-> "nothing"]}

MetricsInit ==
    /\ general_config = [organizations |-> <<OX>>, environments |-> <<PROD, EDGE>>,
                         dry_run |-> TRUE, tasks |-> SubSeq(TaskPool, 1, MaxTasks),
                         exclude_task |-> <<>>, courses |-> <<>>]
    /\ hash_seed = 0
    /\ MainIdle
    /\ SelectIdle
    /\ FilenameIdle
    /\ CoursesIdle
    /\ ShellIdle
    /\ SingleOrgIdle
    /\ CourseExportIdle
    /\ mt_pc = "enter"
    /\ mt_kwargs \in MetricsKwargs
    /\ mt_run \in MetricsRuns
    /\ mt_client = <<>>
    /\ mt_sends = <<>>
    /\ mt_metrics = {}
    /\ mt_outcome = <<>>

\* collect_elapsed_time up to its yield
collect_elapsed_time_enter ==
    /\ mt_pc = "enter"
    /\ mt_client' = IF collects(mt_kwargs) THEN <<graphite_kwargs(mt_kwargs)>> ELSE <<>>
    /\ mt_pc' = "run"
    /\ UNCHANGED <<mt_kwargs, mt_run, mt_sends, mt_metrics, mt_outcome, hash_seed,
                   main_vars, sel_vars, fn_vars, gc_vars, sh_vars, so_vars, ce_vars>>

\* the body of the with block: task.run
MockTask_run ==
    /\ mt_pc = "run"
    /\ mt_outcome' = mt_run
    /\ mt_pc' = "exit"
    /\ UNCHANGED <<mt_kwargs, mt_run, mt_client, mt_sends, mt_metrics, hash_seed,
                   main_vars, sel_vars, fn_vars, gc_vars, sh_vars, so_vars, ce_vars>>

\* collect_elapsed_time after its yield: the send of the elapsed time.
\* Without graphite options the client has no server to send to; with them
\* the send can raise GraphiteSendException all the same.  After a run
\* that raised, the metric is sent or not.
collect_elapsed_time_exit ==
    /\ mt_pc = "exit"
    /\ IF mt_client = <<>>
       THEN UNCHANGED <<mt_sends, mt_metrics, mt_outcome>>
       ELSE \E sends \in (IF mt_run.exc = "None" THEN {TRUE} ELSE BOOLEAN) :
            \E raises \in (IF mt_client[1] = <<>> THEN {TRUE} ELSE BOOLEAN) :
               IF ~sends
               THEN UNCHANGED <<mt_sends, mt_metrics, mt_outcome>>
               ELSE /\ mt_sends' = Append(mt_sends,
                                          [name |-> metric_name("MockTask", mt_kwargs),
                                           raised |-> raises])
                    /\ mt_metrics' = IF raises THEN mt_metrics
                                     ELSE mt_metrics \cup {metric_name("MockTask", mt_kwargs)}
                    /\ mt_outcome' =
                          IF raises /\ mt_outcome.exc = "None"
                                    /\ collect_elapsed_time_send("GraphiteSendException") # "None"
                          THEN [exc |-> collect_elapsed_time_send("GraphiteSendException"),
                                result |-> "nothing"]
                          ELSE mt_outcome
    /\ mt_pc' = "done"
    /\ UNCHANGED <<mt_kwargs, mt_run, mt_client, hash_seed, main_vars, sel_vars, fn_vars,
                   gc_vars, sh_vars, so_vars, ce_vars>>

MetricsNext ==
    \/ collect_elapsed_time_enter
    \/ MockTask_run
    \/ collect_elapsed_time_exit

SpecMetrics == MetricsInit /\ [][MetricsNext]_vars

(***************************************************************************)
(* Properties of collect_elapsed_time (SpecMetrics).                       *)
(***************************************************************************)
\* a send has raised GraphiteSendException
SendRaised == \E i \in 1..Len(mt_sends) : mt_sends[i].raised

NoGraphiteConfigured == (DOMAIN mt_kwargs) \cap GraphiteKeys = {}

\* C24 (metrics are fail-soft): the with block ends as the run of the task
\* ends, with its result or its exception; when the send raises
\* GraphiteSendException or no graphite option is configured, no metric is
\* recorded; when the kwargs have no organization, no client is made and
\* nothing is sent.
C24_MetricsFailSoft ==
    /\ mt_pc \in {"exit", "done"} => mt_outcome = mt_run
    /\ SendRaised \/ NoGraphiteConfigured => mt_metrics = {}
    /\ "organization" \notin DOMAIN mt_kwargs =>
          mt_client = <<>> /\ mt_sends = <<>> /\ mt_metrics = {}
    /\ \A i \in 1..Len(mt_client) : mt_client[i] = graphite_kwargs(mt_kwargs)

\* C24 witness: with graphite options and an organization the send has
\* raised, and the with block has ended with the result of the run
C24_Witness ==
    /\ mt_pc = "done"
    /\ ~NoGraphiteConfigured
    /\ "organization" \in DOMAIN mt_kwargs
    /\ SendRaised
    /\ mt_outcome = [exc |-> "None", result |-> "the-result"]
    /\ mt_metrics = {}

(***************************************************************************)
(* SpecSingleOrg: one run of single_org_export.main for a command line     *)
(* drawn from a pool.                                                      *)
(***************************************************************************)
\* merge_program_options: the key of an option, k[2:].replace('-', '_')
OptionKey ==
    [o \in {"--exclude-task", "--include-task", "--environment", "--organization",
            "--dry-run"} |->
        CASE o = "--exclude-task" -> "exclude_task"
          [] o = "--include-task" -> "include_task"
          [] o = "--environment" -> "environment"
          [] o = "--organization" -> "organization"
          [] o = "--dry-run" -> "dry_run"]

\* dict.get(key, default)
dict_get(d, key, default) == IF key \in DOMAIN d THEN d[key] ELSE default

\* single_org_config.merge_program_options; --work-dir is not given
merge_program_options(cfg, program_options) ==
    [values |->
        [k \in {OptionKey[o] : o \in DOMAIN program_options} \cup {"work_dir"} |->
            IF k = "work_dir" THEN "tempfile.gettempdir()"
            ELSE program_options[CHOOSE o \in DOMAIN program_options : OptionKey[o] = k]]]

\* single_org_config.update_exclude_tasks
update_exclude_tasks(cfg) ==
    LET values == cfg.values
        exclude_tasks == dict_get(values, "exclude_task", <<>>)
    IN  [values |->
            [k \in ((DOMAIN values) \ {"exclude_task"}) \cup {"exclude_tasks"} |->
                IF k = "exclude_tasks" THEN exclude_tasks ELSE values[k]]]

\* the tasks that set_config_defaults always excludes
ALWAYS_EXCLUDED ==
    <<TaskByCls("AssessmentCriterionTask").name__,
      TaskByCls("AssessmentCriterionOptionTask").name__,
      TaskByCls("AssessmentRubricTask").name__,
      TaskByCls("AssessmentTrainingExampleTask").name__,
      TaskByCls("AssessmentTrainingExampleOptionsSelectedTask").name__>>

\* single_org_config.set_config_defaults; none of the path options is given
set_config_defaults(cfg) ==
    LET values == cfg.values
        defaults == [lms_config |-> "/edx/etc/lms.yml",
                     studio_config |-> "/edx/etc/studio.yml",
                     django_admin |-> "django-admin",
                     django_pythonpath |-> "/edx/app/edxapp/edx-platform",
                     name |-> values.environment,
                     output_prefix |-> values.organization,
                     exclude_tasks |-> values.exclude_tasks \o ALWAYS_EXCLUDED]
    IN  [values |-> defaults @@ values]

\* single_org_config._get_config
_get_config(program_options) ==
    set_config_defaults(update_exclude_tasks(merge_program_options(<<>>, program_options)))

\* single_org_config.get_config_for_course
single_org_get_config_for_course(cfg, course) == [course |-> course] @@ cfg.values

\* the tasks export_org_data selects
export_org_data_tasks(cfg, courses_found, seed) ==
    LET kwargs == [courses |-> courses_found, work_dir |-> "destination"] @@ cfg.values
        tasks_from_options == dict_get(kwargs, "tasks", <<>>)
    IN  _get_selected_tasks("OrgTask", tasks_from_options, <<>>, seed)

\* the tasks single_org_export.export_course_data selects
export_course_data_tasks(cfg, seed) ==
    LET kwargs == [work_dir |-> "destination"] @@ cfg
        tasks_from_options == dict_get(kwargs, "tasks", <<>>)
        exclude_tasks == dict_get(kwargs, "exclude_tasks", <<>>)
    IN  _get_selected_tasks("CourseTask", tasks_from_options, exclude_tasks, seed)

\* get_filename_safe_course_id of single_org_export and of course_export
get_filename_safe_course_id(course_id) ==
    LET course_key == CourseKey_from_string(course_id)
        filename == IF course_key.ok
                    THEN Join(<<"_">>, <<course_key.org, course_key.course, course_key.run>>)
                    ELSE course_id
    IN  List([i \in 1..Len(filename) |->
                 IF filename[i] \in SafeChars THEN filename[i] ELSE "_"])

\* run_tasks(task_list, **kwargs) as far as the run goes: the tasks it runs,
\* up to the task `fatal` (0: none), whose run raises FatalTaskError
RECURSIVE tasks_run(_, _, _)
tasks_run(tasks, kwargs, fatal) ==
    IF tasks = <<>> THEN <<>>
    ELSE IF ignored(tasks[1], kwargs) THEN tasks_run(Tail(tasks), kwargs, fatal)
    ELSE IF fatal = 1 THEN <<tasks[1].cls>>
    ELSE <<tasks[1].cls>>
         \o tasks_run(Tail(tasks), kwargs, IF fatal = 0 THEN 0 ELSE fatal - 1)

\* the runs that can raise FatalTaskError: the first task of the list that
\* copies from S3, counted among the tasks that are run
FatalAt(tasks, kwargs) ==
    LET run == SelectSeq(tasks, LAMBDA t : ~ignored(t, kwargs))
    IN  {i \in 1..Len(run) : TaskByCls(run[i].cls).backend = "CopyS3FileTask"}

ExcludeTaskOptions ==
    {<<>>,
     <<TaskByCls("OrgEmailOptInTask").name__>>,
     <<lower(TaskByCls("UserIDMapTask").name__)>>,
     <<TaskByCls("ForumsTask").name__, TaskByCls("OrgEmailOptInTask").name__>>}

IncludeTaskOptions ==
    {<<>>,
     <<TaskByCls("ForumsTask").name__>>,
     <<TaskByCls("OrgEmailOptInTask").name__, TaskByCls("UserIDMapTask").name__>>}

ProgramOptions ==
    {[o \in DOMAIN OptionKey |->
         CASE o = "--exclude-task" -> x
           [] o = "--include-task" -> i
           [] o = "--environment" -> e
           [] o = "--organization" -> OX
           [] o = "--dry-run" -> d] :
        x \in ExcludeTaskOptions, i \in IncludeTaskOptions, e \in {PROD, EDGE},
        d \in {FALSE}}

SingleOrgInit ==
    /\ general_config = [organizations |-> <<OX>>, environments |-> <<PROD, EDGE>>,
                         dry_run |-> TRUE, tasks |-> SubSeq(TaskPool, 1, MaxTasks),
                         exclude_task |-> <<>>, courses |-> <<>>]
    /\ hash_seed \in 0..MaxHashSeed
    /\ MainIdle
    /\ SelectIdle
    /\ FilenameIdle
    /\ CoursesIdle
    /\ ShellIdle
    /\ MetricsIdle
    /\ CourseExportIdle
    /\ so_pc = "setup"
    /\ so_program_options \in ProgramOptions
    /\ so_config = <<>>
    /\ so_courses = <<>>
    /\ so_course_idx = 0
    /\ so_ran = <<>>
    /\ so_dirs = {}
    /\ so_exception = "None"

so_frame == <<hash_seed, main_vars, sel_vars, fn_vars, gc_vars, sh_vars, mt_vars, ce_vars>>

\* general_config = setup(__doc__)
single_org_setup ==
    /\ so_pc = "setup"
    /\ so_config' = _get_config(so_program_options)
    /\ so_pc' = "get_courses"
    /\ UNCHANGED <<so_program_options, so_courses, so_course_idx, so_ran, so_dirs,
                   so_exception, so_frame>>

\* courses = get_courses(general_config): the listing of the environment,
\* or the empty list when the listing command fails
single_org_get_courses ==
    /\ so_pc = "get_courses"
    /\ so_courses' \in {Listing(so_config.values.environment), <<>>}
    /\ so_pc' = "export_org_data"
    /\ UNCHANGED <<so_program_options, so_config, so_course_idx, so_ran, so_dirs,
                   so_exception, so_frame>>

\* export_org_data(general_config, courses, temp_directory)
single_org_export_org_data ==
    /\ so_pc = "export_org_data"
    /\ LET tasks == export_org_data_tasks(so_config, so_courses, hash_seed)
           run == tasks_run(tasks, so_config.values, 0)
       IN  so_ran' = so_ran \o [i \in 1..Len(run) |->
                                   [scope |-> "OrgTask", course |-> <<>>, cls |-> run[i]]]
    /\ so_pc' = "courses"
    /\ UNCHANGED <<so_program_options, so_config, so_courses, so_course_idx, so_dirs,
                   so_exception, so_frame>>

\* one iteration of `for course in courses`: the course directory is made
\* and export_course_data runs the tasks; FatalTaskError ends main()
single_org_export_course_data ==
    /\ so_pc = "courses"
    /\ so_course_idx < Len(so_courses)
    /\ so_course_idx' = so_course_idx + 1
    /\ LET course == so_courses[so_course_idx + 1]
           cfg == single_org_get_config_for_course(so_config, course)
           tasks == export_course_data_tasks(cfg, hash_seed)
       IN  /\ so_dirs' = so_dirs \cup {get_filename_safe_course_id(course)}
           /\ \E fatal \in {0} \cup FatalAt(tasks, cfg) :
                 LET run == tasks_run(tasks, cfg, fatal)
                 IN  /\ so_ran' = so_ran \o [i \in 1..Len(run) |->
                                     [scope |-> "CourseTask", course |-> course, cls |-> run[i]]]
                     /\ so_exception' = IF fatal = 0 THEN "None" ELSE "FatalTaskError"
                     /\ so_pc' = IF fatal = 0 THEN "courses" ELSE "error"
    /\ UNCHANGED <<so_program_options, so_config, so_courses, so_frame>>

\* after the loop: archive_directory(temp_directory) and
\* upload_files_or_dir(config, root_dir); without a course the local
\* `config` was never assigned
single_org_upload ==
    /\ so_pc = "courses"
    /\ so_course_idx = Len(so_courses)
    /\ so_exception' = IF so_courses = <<>> THEN "UnboundLocalError" ELSE "None"
    /\ so_pc' = IF so_courses = <<>> THEN "error" ELSE "done"
    /\ UNCHANGED <<so_program_options, so_config, so_courses, so_course_idx, so_ran,
                   so_dirs, so_frame>>

SingleOrgNext ==
    \/ single_org_setup
    \/ single_org_get_courses
    \/ single_org_export_org_data
    \/ single_org_export_course_data
    \/ single_org_upload

SpecSingleOrg == SingleOrgInit /\ [][SingleOrgNext]_vars

(***************************************************************************)
(* Properties of the single-org exporter (SpecSingleOrg).                  *)
(***************************************************************************)
\* the task names given by --exclude-task and by --include-task
ExcludedNames ==
    {lower(so_program_options["--exclude-task"][i]) :
        i \in 1..Len(so_program_options["--exclude-task"])}

IncludedNames ==
    {lower(so_program_options["--include-task"][i]) :
        i \in 1..Len(so_program_options["--include-task"])}

NameOfClass(cls) == lower(TaskByCls(cls).name__)

\* no task named by --exclude-task was run
ExcludeHonoured == \A i \in 1..Len(so_ran) : NameOfClass(so_ran[i].cls) \notin ExcludedNames

\* with --include-task only the named tasks were run
IncludeHonoured ==
    IncludedNames # {} => \A i \in 1..Len(so_ran) : NameOfClass(so_ran[i].cls) \in IncludedNames

\* without --include-task, a run that came to its end has run every task of
\* the catalog that is not excluded: the organization tasks once, the
\* course tasks for every course
AllOthersRun ==
    (so_pc = "done" /\ IncludedNames = {}) =>
        \A n \in 1..Len(DEFAULT_TASKS) :
            LET task == DEFAULT_TASKS[n]
            IN  lower(task.name__) \notin ExcludedNames =>
                    IF task.scope = "OrgTask"
                    THEN \E i \in 1..Len(so_ran) : so_ran[i].cls = task.cls
                    ELSE \A c \in 1..Len(so_courses) :
                            \E i \in 1..Len(so_ran) :
                                so_ran[i].cls = task.cls /\ so_ran[i].course = so_courses[c]

\* C26 as stated: a task named by --exclude-task is never run, whatever its
\* scope; with --include-task names only the named tasks are run; without
\* them all tasks except the excluded ones are run
C26_AsStated == ExcludeHonoured /\ IncludeHonoured /\ AllOthersRun

(***************************************************************************)
(* SpecCourseExport: one run of course_export.main for requested courses   *)
(* and environments drawn from a pool.                                     *)
(***************************************************************************)
\* get_courses_with_env, the body of its loop for one environment
get_courses_with_env_iteration(courses_with_env, remaining, env, all_courses) ==
    IF all_courses # <<>>
    THEN LET found_courses == remaining \cap Range(all_courses)
         IN  [courses_with_env |->
                 [c \in (DOMAIN courses_with_env) \cup found_courses |->
                     IF c \in found_courses THEN env ELSE courses_with_env[c]],
              courses |-> remaining \ found_courses]
    ELSE [courses_with_env |-> courses_with_env, courses |-> remaining]

\* get_courses_with_env after its loop: whether it raises FatalTaskError
get_courses_with_env_never_raises(remaining) == FALSE

get_courses_with_env_raises(remaining) == remaining # {}

\* the first argument of run_tasks in course_export.export_course_data:
\* the class CourseTask itself, not a list of task classes
export_course_data_task_list == [type |-> "type", name |-> "CourseTask"]

\* run_tasks(task_list, **kwargs) in course_export: `for task in task_list`
\* raises TypeError when task_list is not iterable
course_export_run_tasks(tasks, kwargs) ==
    IF tasks.type # "list"
    THEN [exc |-> "TypeError", ran |-> <<>>]
    ELSE [exc |-> "None", ran |-> tasks_run(tasks.items, kwargs, 0)]

\* course_export.get_filename_safe_course_id: it calls unicode(), a name
\* that Python 3 does not have
course_export_safe_course_id_raises(python) ==
    IF python = "python3" THEN "NameError" ELSE "None"

RequestedCourses ==
    {<<>>, <<COURSE_1>>, <<COURSE_2>>, <<COURSE_1, COURSE_3>>, <<COURSE_OLD>>,
     <<COURSE_1, COURSE_OLD>>}

CourseExportConfigs ==
    {[values |-> [course |-> c, dry_run |-> d], environments |-> e, python |-> p] :
        c \in RequestedCourses, d \in BOOLEAN,
        e \in EnvironmentOrders \cup {<<PROD>>, <<EDGE>>},
        p \in {"python2", "python3"}}

CourseExportInit ==
    /\ general_config = [organizations |-> <<OX>>, environments |-> <<PROD, EDGE>>,
                         dry_run |-> TRUE, tasks |-> SubSeq(TaskPool, 1, MaxTasks),
                         exclude_task |-> <<>>, courses |-> <<>>]
    /\ hash_seed = 0
    /\ MainIdle
    /\ SelectIdle
    /\ FilenameIdle
    /\ CoursesIdle
    /\ ShellIdle
    /\ MetricsIdle
    /\ SingleOrgIdle
    /\ ce_pc = "get_courses_with_env"
    /\ ce_config \in CourseExportConfigs
    /\ ce_environment_idx = 0
    /\ ce_listings = <<>>
    /\ ce_courses = Range(ce_config.values.course)
    /\ ce_courses_with_env = <<>>
    /\ ce_course_idx = 0
    /\ ce_dirs = {}
    /\ ce_ran = <<>>
    /\ ce_results = <<>>
    /\ ce_uploaded = <<>>
    /\ ce_exception = "None"

ce_frame == <<hash_seed, main_vars, sel_vars, fn_vars, gc_vars, sh_vars, mt_vars, so_vars>>

\* get_courses_with_env: one iteration of `for environment in
\* config['environments']`; get_all_courses returns the listing of the
\* environment, or the empty list when the listing command fails
get_courses_with_env_loop ==
    /\ ce_pc = "get_courses_with_env"
    /\ ce_environment_idx < Len(ce_config.environments)
    /\ ce_environment_idx' = ce_environment_idx + 1
    /\ LET env == ce_config.environments[ce_environment_idx + 1]
       IN  \E all_courses \in {Listing(env), <<>>} :
              LET after == get_courses_with_env_iteration(ce_courses_with_env, ce_courses,
                                                          env, all_courses)
              IN  /\ ce_listings' = Append(ce_listings, all_courses)
                  /\ ce_courses_with_env' = after.courses_with_env
                  /\ ce_courses' = after.courses
    /\ UNCHANGED <<ce_pc, ce_config, ce_course_idx, ce_dirs, ce_ran, ce_results,
                   ce_uploaded, ce_exception, ce_frame>>

\* get_courses_with_env after its loop: it raises FatalTaskError, which
\* main() does not handle, or returns courses_with_env
get_courses_with_env_return ==
    /\ ce_pc = "get_courses_with_env"
    /\ ce_environment_idx = Len(ce_config.environments)
    /\ IF get_courses_with_env_raises(ce_courses)
       THEN ce_exception' = "FatalTaskError" /\ ce_pc' = "error"
       ELSE ce_exception' = "None" /\ ce_pc' = "courses"
    /\ UNCHANGED <<ce_config, ce_environment_idx, ce_listings, ce_courses,
                   ce_courses_with_env, ce_course_idx, ce_dirs, ce_ran, ce_results,
                   ce_uploaded, ce_frame>>

\* main: one iteration of `for course in general_config['values']['course']`:
\* make_course_directory, export_course_data, upload_files.  An exception
\* leaves the with block and ends main()
course_export_course ==
    /\ ce_pc = "courses"
    /\ ce_course_idx < Len(ce_config.values.course)
    /\ ce_course_idx' = ce_course_idx + 1
    /\ LET course == ce_config.values.course[ce_course_idx + 1]
           env == ce_courses_with_env[course]
           kwargs == [course |-> course, environment |-> env, work_dir |-> "destination"]
           named == course_export_safe_course_id_raises(ce_config.python)
           run == course_export_run_tasks(export_course_data_task_list, kwargs)
       IN  IF named # "None"
           THEN /\ ce_exception' = named
                /\ ce_pc' = "error"
                /\ UNCHANGED <<ce_dirs, ce_ran, ce_results, ce_uploaded>>
           ELSE /\ ce_dirs' = ce_dirs \cup {get_filename_safe_course_id(course)}
                /\ ce_ran' = ce_ran \o [i \in 1..Len(run.ran) |->
                                 [course |-> course, environment |-> env, cls |-> run.ran[i]]]
                /\ IF run.exc # "None"
                   THEN /\ ce_exception' = run.exc
                        /\ ce_pc' = "error"
                        /\ UNCHANGED <<ce_results, ce_uploaded>>
                   ELSE /\ ce_results' = Append(ce_results, run.ran)
                        /\ ce_uploaded' = Append(ce_uploaded, course)
                        /\ UNCHANGED <<ce_exception, ce_pc>>
    /\ UNCHANGED <<ce_config, ce_environment_idx, ce_listings, ce_courses,
                   ce_courses_with_env, ce_frame>>

\* main returns after the last course
course_export_return ==
    /\ ce_pc = "courses"
    /\ ce_course_idx = Len(ce_config.values.course)
    /\ ce_pc' = "done"
    /\ UNCHANGED <<ce_config, ce_environment_idx, ce_listings, ce_courses,
                   ce_courses_with_env, ce_course_idx, ce_dirs, ce_ran, ce_results,
                   ce_uploaded, ce_exception, ce_frame>>

CourseExportNext ==
    \/ get_courses_with_env_loop
    \/ get_courses_with_env_return
    \/ course_export_course
    \/ course_export_return

SpecCourseExport == CourseExportInit /\ [][CourseExportNext]_vars

(***************************************************************************)
(* Properties of the course exporter (SpecCourseExport).                   *)
(***************************************************************************)
Requested == Range(ce_config.values.course)

\* get_courses_with_env has ended, by return or by raise
Resolved == ce_pc \in {"courses", "done", "error"}

\* the course is in the listing that the i-th environment returned
ListedIn(course, i) == course \in Range(ce_listings[i])

\* the requested courses that no listing contains
Unlisted == {c \in Requested : \A i \in 1..Len(ce_listings) : ~ListedIn(c, i)}

\* the first configured environment whose listing contains the course
FirstEnvironmentOf(course) ==
    ce_config.environments[
        CHOOSE i \in 1..Len(ce_listings) :
            ListedIn(course, i) /\ \A j \in 1..(i - 1) : ~ListedIn(course, j)]

\* C28 (environment resolution): before any course is exported,
\* get_courses_with_env assigns every requested course to exactly one
\* environment, the first configured environment whose listing contains
\* it; if a requested course is in no listing (every listing failed or is
\* empty included), FatalTaskError is raised, no course directory is
\* created and no task runs.
C28_EnvironmentResolution ==
    /\ ce_pc = "get_courses_with_env" =>
          ce_course_idx = 0 /\ ce_dirs = {} /\ ce_ran = <<>> /\ ce_uploaded = <<>>
    /\ \A c \in DOMAIN ce_courses_with_env :
          c \in Requested /\ ce_courses_with_env[c] = FirstEnvironmentOf(c)
    /\ (Resolved /\ Unlisted = {}) =>
          /\ DOMAIN ce_courses_with_env = Requested
          /\ ce_exception # "FatalTaskError"
    /\ (Resolved /\ Unlisted # {}) =>
          /\ ce_pc = "error"
          /\ ce_exception = "FatalTaskError"
          /\ ce_course_idx = 0
          /\ ce_dirs = {}
          /\ ce_ran = <<>>
          /\ ce_uploaded = <<>>

\* C28 witness: COURSE_1 is in the listings of both environments and was
\* assigned to the first, edge; the other requested course is in no
\* listing, and the run has ended with FatalTaskError
C28_Witness ==
    /\ ce_pc = "error"
    /\ ce_exception = "FatalTaskError"
    /\ ce_config.environments = <<EDGE, PROD>>
    /\ ListedIn(COURSE_1, 1) /\ ListedIn(COURSE_1, 2)
    /\ ce_courses_with_env = (COURSE_1 :> EDGE)
    /\ Unlisted = {COURSE_OLD}
    /\ ce_dirs = {}

\* a course of two listings is assigned to the first and the run goes on
C28_WitnessAssigned ==
    /\ ce_pc = "courses"
    /\ ce_config.environments = <<EDGE, PROD>>
    /\ ce_courses_with_env = (COURSE_1 :> EDGE) @@ (COURSE_3 :> PROD)

\* the course-scope tasks of the catalog
CourseScopeTasks ==
    {DEFAULT_TASKS[n].cls : n \in {m \in 1..Len(DEFAULT_TASKS) :
                                      DEFAULT_TASKS[m].scope = "CourseTask"}}

\* the runs of a task for a course in an environment
RunsOf(cls, course, env) ==
    {i \in 1..Len(ce_ran) :
        ce_ran[i].cls = cls /\ ce_ran[i].course = course /\ ce_ran[i].environment = env}

\* C29 as stated: for each requested course that main() has handled, every
\* course-scope task of the catalog was run once against the environment
\* the course was resolved to, export_course_data returned one path per
\* task, and the files of the course were uploaded
C29_AsStated ==
    \A k \in 1..ce_course_idx :
        LET course == ce_config.values.course[k]
        IN  /\ \A cls \in CourseScopeTasks :
                  Cardinality(RunsOf(cls, course, ce_courses_with_env[course])) = 1
            /\ k <= Len(ce_results)
            /\ Len(ce_results[k]) = Cardinality(CourseScopeTasks)
            /\ k <= Len(ce_uploaded)
            /\ ce_uploaded[k] = course

====
